---- MODULE Spec2Model ----
(***************************************************************************)
(* App lifecycle orchestration of runtipi: the dashboard's app service and *)
(* lifecycle commands, the app record table, the events dispatched to the  *)
(* worker, the worker's executors and the completion callbacks.            *)
(***************************************************************************)
EXTENDS Integers, Sequences, FiniteSets, Bags, TLC

VARIABLES
  appTable,    \* the rows of the app table
  queue,       \* bag of events dispatched to the worker and not yet executed
  results,     \* bag of executed events whose completion callback has not run
  validated,   \* bag of install requests that passed validation, before createApp
  unawaited,   \* bag of record writes issued without await and not yet applied
  demoMode,    \* TipiConfig.getConfig().demoMode
  startAll,    \* the run of startAllApps: its position, the apps it selected
  exec,        \* the run of one executor command on the worker's filesystem
  env          \* the environment file of an app and what its generation is given

vars == <<appTable, queue, results, validated, unawaited, demoMode, startAll, exec, env>>

----------------------------------------------------------------------------
(* Bounds of the model *)

\* events, validated requests and unawaited writes that may be in flight together
MaxInFlight == 2
\* installs between validation and createApp while the exposure settings are exercised
MaxInstalls == 1

----------------------------------------------------------------------------
(* Strings that the code inspects are sequences of characters; a domain is *)
(* the sequence of its dot-separated labels.                               *)

Letters == {"a", "c", "e", "i", "m", "o", "s", "t", "x"}
Digits == {"1"}
Hyphen == "-"

Null == <<>>                                   \* SQL NULL / JS null for a domain
EmptyString == << <<>> >>                      \* ''
DomExCom == << <<"e", "x">>, <<"c", "o", "m">> >>        \* 'ex.com'
DomTest == << <<"t", "e", "s", "t">> >>                  \* 'test'

\* the top-level label: letters only, at least two of them
TldOk(l) == Len(l) >= 2 /\ \A i \in 1..Len(l) : l[i] \in Letters

\* any label: 1..63 characters, letters digits and hyphen, no hyphen at either end
PartOk(l) ==
  /\ Len(l) >= 1
  /\ Len(l) <= 63
  /\ \A i \in 1..Len(l) : l[i] \in Letters \cup Digits \cup {Hyphen}
  /\ l[1] # Hyphen
  /\ l[Len(l)] # Hyphen

\* validator.isFQDN(domain) with its default options (a TLD is required)
isFQDN(d) ==
  /\ Len(d) >= 2
  /\ TldOk(d[Len(d)])
  /\ \A i \in 1..Len(d) : PartOk(d[i])

----------------------------------------------------------------------------
(* Forms: objects whose fields are optional; an absent field is undefined *)

Has(form, f) == f \in DOMAIN form
\* form.exposed in a condition
Exposed(form) == Has(form, "exposed") /\ form.exposed = TRUE
\* form.domain in a condition: undefined and '' are falsy
Domain(form) == Has(form, "domain") /\ form.domain # EmptyString
\* form.x || false
OrFalse(form, f) == Has(form, f) /\ form[f] = TRUE
\* domain || null
DomainOrNull(form) == IF Domain(form) THEN form.domain ELSE Null

EmptyForm == [f \in {} |-> TRUE]               \* {}

\* the forms the requests are made with
FormHello == [TEST_FIELD |-> "hello"]
FormNoDomain == [exposed |-> TRUE]
FormBadDomain == [exposed |-> TRUE, domain |-> DomTest]
FormExposed == [exposed |-> TRUE, domain |-> DomExCom]
Forms == {FormHello, FormNoDomain, FormBadDomain, FormExposed}

----------------------------------------------------------------------------
(* The catalog of app definitions (config.json of each app of the repo) *)

AppIds == {"a", "b", "c", "d"}                 \* the ids commands are invoked with
LifecycleIds == {"a", "d"}
FillerIds == <<"o1", "o2", "o3", "o4", "o5">>  \* other installed apps, left alone

NoInfo == [available |-> FALSE]
Catalog ==
  [id \in AppIds |->
     CASE id = "a" -> [available |-> TRUE, exposable |-> TRUE, force_expose |-> FALSE,
                       tipi_version |-> 1, min_tipi_version |-> 1]
       [] id = "b" -> [available |-> TRUE, exposable |-> TRUE, force_expose |-> TRUE,
                       tipi_version |-> 1, min_tipi_version |-> 1]
       [] id = "c" -> [available |-> TRUE, exposable |-> FALSE, force_expose |-> FALSE,
                       tipi_version |-> 1, min_tipi_version |-> 2]
       [] OTHER -> NoInfo]

\* the order of the ids
IdRank(id) ==
  CASE id = "a" -> 1 [] id = "b" -> 2 [] id = "c" -> 3 [] id = "d" -> 4 [] OTHER -> 5
IdLess(x, y) == IdRank(x) < IdRank(y)

\* getAppInfo(id): the definition, or undefined
getAppInfo(id) == Catalog[id]

\* TipiConfig version of the host; versions are numbered in release order
\* (3.1.0 is 1, 3.2.0 is 2), so that app c asks for a newer host than this one
TipiVersion == 1

\* apps.length >= 6 && demoMode
DemoLimit == 6

----------------------------------------------------------------------------
(* AppQueries over the table *)

Rows(table, id) == SelectSeq(table, LAMBDA r : r.id = id)
HasApp(table, id) == Rows(table, id) # <<>>
\* getApp: findFirst where id = appId
getApp(table, id) == Rows(table, id)[1]
\* the status a reader sees; an absent record reads as missing
StatusOf(table, id) == IF HasApp(table, id) THEN getApp(table, id).status ELSE "missing"

\* an update without its where clause
SetStatus_EveryRow(table, id, s) ==
  [i \in DOMAIN table |-> [table[i] EXCEPT !.status = s]]

\* updateApp(appId, { status }): update ... where id = appId
SetStatus(table, id, s) ==
  [i \in DOMAIN table |-> IF table[i].id = id THEN [table[i] EXCEPT !.status = s] ELSE table[i]]

\* updateApp(appId, { version })
SetVersion(table, id, v) ==
  [i \in DOMAIN table |-> IF table[i].id = id THEN [table[i] EXCEPT !.version = v] ELSE table[i]]

\* deleteApp(appId)
deleteApp(table, id) == SelectSeq(table, LAMBDA r : r.id # id)

\* createApp(data); columns the data leaves out take their defaults
NewRow(id, status, form, version) ==
  [id |-> id, status |-> status, config |-> form, version |-> version,
   exposed |-> Exposed(form), domain |-> DomainOrNull(form),
   exposedLocal |-> FALSE, openPort |-> FALSE,
   isVisibleOnGuestDashboard |-> OrFalse(form, "isVisibleOnGuestDashboard")]
\* the table is kept in the order getApps reads it (by id, older rows first)
createApp(table, row) ==
  LET before == SelectSeq(table, LAMBDA r : ~IdLess(row.id, r.id))
      after == SelectSeq(table, LAMBDA r : IdLess(row.id, r.id))
  IN before \o <<row>> \o after

\* getAppsByDomain(domain, id): exposed rows of other apps with this domain
getAppsByDomain(table, domain, id) ==
  SelectSeq(table, LAMBDA r : r.domain = domain /\ r.exposed /\ r.id # id)

----------------------------------------------------------------------------
(* Events *)

\* startAllApps is not running; no executor command is being followed
NoStartAll == [pc |-> "idle"]
NoExec == [pc |-> "idle"]
NoEnv == [pc |-> "idle"]

InFlight ==
  BagCardinality(queue) + BagCardinality(results) + BagCardinality(validated)
    + BagCardinality(unawaited)
Room(n) == InFlight + n <= MaxInFlight

\* an event handed to EventDispatcher.dispatchEventAsync; before and seen record
\* what the record showed when the command was invoked and when it dispatched
Event(command, id, form, via, before, seen) ==
  [command |-> command, appid |-> id, form |-> form, via |-> via,
   before |-> before, seen |-> seen]

FillerRow(id) == NewRow(id, "stopped", EmptyForm, 1)
FillerTable == [i \in DOMAIN FillerIds |-> FillerRow(FillerIds[i])]

Init ==
  /\ appTable = <<>>
  /\ demoMode = FALSE
  /\ queue = EmptyBag
  /\ results = EmptyBag
  /\ validated = EmptyBag
  /\ unawaited = EmptyBag
  /\ startAll = NoStartAll
  /\ exec = NoExec
  /\ env = NoEnv

\* the exposure settings are exercised with and without the demo mode; in demo
\* mode the table already holds five other apps
InitConfig ==
  /\ \/ appTable = <<>> /\ demoMode = FALSE
     \/ appTable = FillerTable /\ demoMode = TRUE
  /\ queue = EmptyBag
  /\ results = EmptyBag
  /\ validated = EmptyBag
  /\ unawaited = EmptyBag
  /\ startAll = NoStartAll
  /\ exec = NoExec
  /\ env = NoEnv

----------------------------------------------------------------------------
(* Steps shared by the commands *)

\* throw new TranslatedError(...): the call ends, nothing is written or dispatched.
\* Errors are named by the last part of their message key, which the service
\* (server-messages.errors.app-not-found) and the commands (APP_ERROR_APP_NOT_FOUND)
\* spell differently.
Throw == UNCHANGED vars

\* eventDispatcher.dispatchEventAsync(event)
Dispatch(q, e) == q (+) SetToBag({e})

----------------------------------------------------------------------------
(* AppServiceClass.startApp and StartAppCommand.execute *)

\* the record is marked starting, then the start event is dispatched
StartDispatch(table, q, appName, via) ==
  Dispatch(q, Event("start", appName, getApp(table, appName).config, via,
                    StatusOf(table, appName), "starting"))

\* what the command throws; "none" when it goes on
startAppError(table, appName) == IF ~HasApp(table, appName) THEN "app-not-found" ELSE "none"

startApp(appName) ==
  IF startAppError(appTable, appName) # "none"
  THEN Throw
  ELSE /\ Room(1)
       /\ appTable' = SetStatus(appTable, appName, "starting")
       /\ queue' = StartDispatch(appTable, queue, appName, "service")
       /\ UNCHANGED <<results, validated, unawaited, demoMode, startAll, exec, env>>

StartAppCommandError(table, appId) == IF ~HasApp(table, appId) THEN "app-not-found" ELSE "none"

\* a command that would wait for the worker and write the final status itself
StartAppCommand_Awaiting(appId) ==
  IF StartAppCommandError(appTable, appId) # "none"
  THEN Throw
  ELSE /\ \E success \in BOOLEAN :
            appTable' = SetStatus(appTable, appId, IF success THEN "running" ELSE "stopped")
       /\ UNCHANGED <<queue, results, validated, unawaited, demoMode, startAll, exec, env>>

\* StartAppCommand.execute: the promise of the dispatch is not awaited
StartAppCommand(appId) ==
  IF StartAppCommandError(appTable, appId) # "none"
  THEN Throw
  ELSE /\ Room(1)
       /\ appTable' = SetStatus(appTable, appId, "starting")
       /\ queue' = StartDispatch(appTable, queue, appId, "command")
       /\ UNCHANGED <<results, validated, unawaited, demoMode, startAll, exec, env>>

----------------------------------------------------------------------------
(* AppServiceClass.installApp *)

\* checkAppRequirements(id): throws when the app has no valid config.json
checkAppRequirements(id) ==
  IF getAppInfo(id).available THEN "none" ELSE "invalid-config-file"

\* the checks of installApp without the check of the definition's exposable
installError_NoExposableCheck(table, demo, id, form) ==
  LET appInfo == getAppInfo(id) IN
  IF Len(table) >= DemoLimit /\ demo THEN "demo-mode-limit"
  ELSE IF Exposed(form) /\ ~Domain(form) THEN "domain-required-if-expose-app"
  ELSE IF Domain(form) /\ ~isFQDN(form.domain) THEN "domain-not-valid"
  ELSE IF checkAppRequirements(id) # "none" THEN checkAppRequirements(id)
  ELSE IF ~appInfo.available THEN "invalid-config"
  ELSE IF (appInfo.force_expose /\ ~Exposed(form)) \/ (appInfo.force_expose /\ ~Domain(form))
    THEN "app-force-exposed"
  ELSE IF Exposed(form) /\ Domain(form) /\ getAppsByDomain(table, form.domain, id) # <<>>
    THEN "domain-already-in-use"
  ELSE "none"

\* the checks of installApp for an app without a record, in the order of the code;
\* "none" when the request passes them all
installError(table, demo, id, form) ==
  LET appInfo == getAppInfo(id) IN
  IF Len(table) >= DemoLimit /\ demo THEN "demo-mode-limit"
  ELSE IF Exposed(form) /\ ~Domain(form) THEN "domain-required-if-expose-app"
  ELSE IF Domain(form) /\ ~isFQDN(form.domain) THEN "domain-not-valid"
  ELSE IF checkAppRequirements(id) # "none" THEN checkAppRequirements(id)
  ELSE IF ~appInfo.available THEN "invalid-config"
  ELSE IF ~appInfo.exposable /\ Exposed(form) THEN "app-not-exposable"
  ELSE IF (appInfo.force_expose /\ ~Exposed(form)) \/ (appInfo.force_expose /\ ~Domain(form))
    THEN "app-force-exposed"
  ELSE IF Exposed(form) /\ Domain(form) /\ getAppsByDomain(table, form.domain, id) # <<>>
    THEN "domain-already-in-use"
  ELSE "none"

\* what installApp throws: an installed app is started without looking at the
\* form, otherwise the form is validated
installAppError(table, demo, id, form) ==
  IF HasApp(table, id) THEN startAppError(table, id)
  ELSE installError(table, demo, id, form)

\* an install that would create the record before it throws
installThrow_AfterCreate(id, form, err) ==
  /\ appTable' = createApp(appTable, NewRow(id, "installing", form, 1))
  /\ UNCHANGED <<queue, results, validated, unawaited, demoMode, startAll, exec, env>>

\* what a refused install leaves behind
installThrow(id, form, err) == Throw

\* the request up to its last read of the table; createApp follows in installCreate
installApp(id, form) ==
  LET err == installAppError(appTable, demoMode, id, form) IN
  IF err # "none"
  THEN installThrow(id, form, err)
  ELSE IF HasApp(appTable, id)
  THEN /\ Room(1)
       /\ appTable' = SetStatus(appTable, id, "starting")
       /\ queue' = StartDispatch(appTable, queue, id, "service")
       /\ UNCHANGED <<results, validated, unawaited, demoMode, startAll, exec, env>>
  ELSE /\ Room(1)
       /\ validated' = validated (+) SetToBag({[id |-> id, form |-> form,
                                               version |-> getAppInfo(id).tipi_version]})
       /\ UNCHANGED <<appTable, queue, results, unawaited, demoMode, startAll, exec, env>>

\* createApp with status installing, then the install event is dispatched
installCreate(v) ==
  /\ appTable' = createApp(appTable, NewRow(v.id, "installing", v.form, v.version))
  /\ validated' = validated (-) SetToBag({v})
  /\ queue' = Dispatch(queue, Event("install", v.id, v.form, "service", "missing", "installing"))
  /\ UNCHANGED <<results, unawaited, demoMode, startAll, exec, env>>

----------------------------------------------------------------------------
(* AppServiceClass.updateAppConfig and UpdateAppConfigCommand.execute *)

\* the checks of updateAppConfig without the one that requires a domain
updateAppConfigError_NoDomainRequired(table, id, form) ==
  LET appInfo == getAppInfo(id) IN
  IF Domain(form) /\ ~isFQDN(form.domain) THEN "domain-not-valid"
  ELSE IF ~HasApp(table, id) THEN "app-not-found"
  ELSE IF ~appInfo.available THEN "invalid-config"
  ELSE IF ~appInfo.exposable /\ Exposed(form) THEN "app-not-exposable"
  ELSE IF appInfo.force_expose /\ ~Exposed(form) THEN "app-force-exposed"
  ELSE IF Exposed(form) /\ Domain(form) /\ getAppsByDomain(table, form.domain, id) # <<>>
    THEN "domain-already-in-use"
  ELSE "none"

\* the checks of AppServiceClass.updateAppConfig, in the order of the code
updateAppConfigError(table, id, form) ==
  LET appInfo == getAppInfo(id) IN
  IF Exposed(form) /\ ~Domain(form) THEN "domain-required-if-expose-app"
  ELSE IF Domain(form) /\ ~isFQDN(form.domain) THEN "domain-not-valid"
  ELSE IF ~HasApp(table, id) THEN "app-not-found"
  ELSE IF ~appInfo.available THEN "invalid-config"
  ELSE IF ~appInfo.exposable /\ Exposed(form) THEN "app-not-exposable"
  ELSE IF (appInfo.force_expose /\ ~Exposed(form)) \/ (appInfo.force_expose /\ ~Domain(form))
    THEN "app-force-exposed"
  ELSE IF Exposed(form) /\ Domain(form) /\ getAppsByDomain(table, form.domain, id) # <<>>
    THEN "domain-already-in-use"
  ELSE "none"

\* the checks of the command without the lookup of the domain
UpdateAppConfigCommandError_NoDomainLookup(table, appId, form) ==
  LET appInfo == getAppInfo(appId) IN
  IF Exposed(form) /\ ~Domain(form) THEN "domain-required-if-expose-app"
  ELSE IF Domain(form) /\ ~isFQDN(form.domain) THEN "domain-not-valid"
  ELSE IF ~HasApp(table, appId) THEN "app-not-found"
  ELSE IF ~appInfo.available THEN "app-not-found"
  ELSE IF ~appInfo.exposable /\ Exposed(form) THEN "app-not-exposable"
  ELSE IF appInfo.force_expose /\ ~Exposed(form) THEN "app-force-exposed"
  ELSE "none"

\* the checks of UpdateAppConfigCommand.execute, in the order of the code
UpdateAppConfigCommandError(table, appId, form) ==
  LET appInfo == getAppInfo(appId) IN
  IF Exposed(form) /\ ~Domain(form) THEN "domain-required-if-expose-app"
  ELSE IF Domain(form) /\ ~isFQDN(form.domain) THEN "domain-not-valid"
  ELSE IF ~HasApp(table, appId) THEN "app-not-found"
  ELSE IF ~appInfo.available THEN "app-not-found"
  ELSE IF ~appInfo.exposable /\ Exposed(form) THEN "app-not-exposable"
  ELSE IF appInfo.force_expose /\ ~Exposed(form) THEN "app-force-exposed"
  ELSE IF Exposed(form) /\ Domain(form) /\ getAppsByDomain(table, form.domain, appId) # <<>>
    THEN "domain-already-in-use"
  ELSE "none"

\* a request that passed the checks awaits the generate_env event
GenerateEnvDispatch(op, via, id, form) ==
  /\ Room(1)
  /\ queue' = Dispatch(queue, Event("generate_env", id, form, via, "", ""))
  /\ UNCHANGED <<appTable, results, validated, unawaited, demoMode, startAll, exec, env>>

updateAppConfig(id, form) ==
  LET err == updateAppConfigError(appTable, id, form) IN
  IF err # "none"
  THEN Throw
  ELSE GenerateEnvDispatch("updateAppConfig", "service", id, form)

UpdateAppConfigCommand(appId, form) ==
  LET err == UpdateAppConfigCommandError(appTable, appId, form) IN
  IF err # "none"
  THEN Throw
  ELSE GenerateEnvDispatch("UpdateAppConfigCommand", "command", appId, form)

----------------------------------------------------------------------------
(* AppServiceClass.stopApp, uninstallApp, resetApp, updateApp and          *)
(* ResetAppCommand.execute                                                 *)

stopAppError(table, id) == IF ~HasApp(table, id) THEN "app-not-found" ELSE "none"

stopApp(id) ==
  IF stopAppError(appTable, id) # "none"
  THEN Throw
  ELSE /\ Room(1)
       /\ appTable' = SetStatus(appTable, id, "stopping")
       /\ queue' = Dispatch(queue, Event("stop", id, getApp(appTable, id).config, "service",
                                         StatusOf(appTable, id), "stopping"))
       /\ UNCHANGED <<results, validated, unawaited, demoMode, startAll, exec, env>>

uninstallAppError(table, id) == IF ~HasApp(table, id) THEN "app-not-found" ELSE "none"

\* a running app is stopped first (stopApp returns once its event is dispatched),
\* then the record is marked uninstalling and the uninstall event dispatched
uninstallApp(id) ==
  IF uninstallAppError(appTable, id) # "none"
  THEN Throw
  ELSE LET app == getApp(appTable, id)
           stop == Event("stop", id, app.config, "service", app.status, "stopping")
           uninstall == Event("uninstall", id, app.config, "service", app.status, "uninstalling")
       IN /\ Room(IF app.status = "running" THEN 2 ELSE 1)
          /\ appTable' = SetStatus(appTable, id, "uninstalling")
          /\ queue' = IF app.status = "running"
                      THEN Dispatch(Dispatch(queue, stop), uninstall)
                      ELSE Dispatch(queue, uninstall)
          /\ UNCHANGED <<results, validated, unawaited, demoMode, startAll, exec, env>>

\* a default object that would read as a stopped app
getAppOrDefault_Stopped(table, id) ==
  IF HasApp(table, id) THEN getApp(table, id)
  ELSE [id |-> id, status |-> "stopped", config |-> EmptyForm, exposed |-> FALSE,
        domain |-> EmptyString]

\* AppServiceClass.getApp: the record, or a default object when there is none
getAppOrDefault(table, id) ==
  IF HasApp(table, id) THEN getApp(table, id)
  ELSE [id |-> id, status |-> "missing", config |-> EmptyForm, exposed |-> FALSE,
        domain |-> EmptyString]

\* AppServiceClass.resetApp throws only what its getApp throws
resetAppError(table, id) == IF ~getAppInfo(id).available THEN "invalid-config" ELSE "none"

\* the write of resetting is not awaited: the event is dispatched while the
\* write is still on its way
resetApp(id) ==
  IF resetAppError(appTable, id) # "none"
  THEN Throw
  ELSE LET app == getAppOrDefault(appTable, id) IN
       /\ Room(2)
       /\ unawaited' = unawaited (+) SetToBag({[appid |-> id, status |-> "resetting"]})
       /\ queue' = Dispatch(queue, Event("reset", id, app.config, "service",
                                         app.status, app.status))
       /\ UNCHANGED <<appTable, results, validated, demoMode, startAll, exec, env>>

\* a write issued without await reaches the table
WriteLands(w) ==
  /\ appTable' = SetStatus(appTable, w.appid, w.status)
  /\ unawaited' = unawaited (-) SetToBag({w})
  /\ UNCHANGED <<queue, results, validated, demoMode, startAll, exec, env>>

ResetAppCommandError(table, appId) == IF ~HasApp(table, appId) THEN "app-not-found" ELSE "none"

ResetAppCommand(appId) ==
  IF ResetAppCommandError(appTable, appId) # "none"
  THEN Throw
  ELSE /\ Room(1)
       /\ appTable' = SetStatus(appTable, appId, "resetting")
       /\ queue' = Dispatch(queue, Event("reset", appId, getApp(appTable, appId).config,
                                         "command", StatusOf(appTable, appId), "resetting"))
       /\ UNCHANGED <<results, validated, unawaited, demoMode, startAll, exec, env>>

updateAppError(table, id) == IF ~HasApp(table, id) THEN "app-not-found" ELSE "none"

\* before is appStatusBeforeUpdate
updateApp(id) ==
  IF updateAppError(appTable, id) # "none"
  THEN Throw
  ELSE /\ Room(1)
       /\ appTable' = SetStatus(appTable, id, "updating")
       /\ queue' = Dispatch(queue, Event("update", id, getApp(appTable, id).config, "service",
                                         StatusOf(appTable, id), "updating"))
       /\ UNCHANGED <<results, validated, unawaited, demoMode, startAll, exec, env>>

----------------------------------------------------------------------------
(* The worker: AppExecutors run one dispatched event                       *)

Outcomes == {"ok", "fail", "skip"}

\* an executor whose uninstall would leave the record to the dashboard
ExecutorWrite_NoDelete(table, e, outcome) ==
  IF outcome # "ok" THEN table
  ELSE CASE e.command = "start" -> SetStatus(table, e.appid, "running")
         [] e.command = "stop" -> SetStatus(table, e.appid, "stopped")
         [] e.command = "reset" -> SetStatus(table, e.appid, "running")
         [] OTHER -> table

\* what the executor of the event writes to the app table itself
ExecutorWrite(table, e, outcome) ==
  IF outcome # "ok" THEN table
  ELSE CASE e.command = "start" -> SetStatus(table, e.appid, "running")
         [] e.command = "stop" -> SetStatus(table, e.appid, "stopped")
         [] e.command = "reset" -> SetStatus(table, e.appid, "running")
         [] e.command = "uninstall" -> deleteApp(table, e.appid)
         [] OTHER -> table

\* the { success } the executor returns; stopApp also succeeds, without stopping
\* anything, when the installed directory holds no config.json
Success(outcome) == outcome # "fail"

Result(e, ok) == [command |-> e.command, appid |-> e.appid, form |-> e.form, via |-> e.via,
                  before |-> e.before, seen |-> e.seen, success |-> ok]

WorkerRun(e, outcome) ==
  /\ outcome = "skip" => e.command = "stop"
  /\ appTable' = ExecutorWrite(appTable, e, outcome)
  /\ queue' = queue (-) SetToBag({e})
  /\ results' = results (+) SetToBag({Result(e, Success(outcome))})
  /\ UNCHANGED <<validated, unawaited, demoMode, startAll, exec, env>>

----------------------------------------------------------------------------
(* The completion callbacks (.then) of the dispatched events               *)

\* a callback that would put back the status the app had before the start
ThenStartWrite_Revert(table, r) ==
  IF r.success THEN SetStatus(table, r.appid, "running")
  ELSE SetStatus(table, r.appid, r.before)

\* startApp / StartAppCommand: running on success, stopped otherwise
ThenStartWrite(table, r) ==
  IF r.success THEN SetStatus(table, r.appid, "running")
  ELSE SetStatus(table, r.appid, "stopped")

\* installApp: running on success, the record is deleted otherwise
ThenInstallWrite(table, r) ==
  IF r.success THEN SetStatus(table, r.appid, "running")
  ELSE deleteApp(table, r.appid)

\* stopApp: stopped on success, running otherwise
ThenStopWrite(table, r) ==
  IF r.success THEN SetStatus(table, r.appid, "stopped")
  ELSE SetStatus(table, r.appid, "running")

\* a callback that would leave the status of a failed uninstall as it is
ThenUninstallWrite_KeepStatus(table, r) ==
  IF r.success THEN deleteApp(table, r.appid) ELSE table

\* uninstallApp: the record is deleted on success, stopped otherwise
ThenUninstallWrite(table, r) ==
  IF r.success THEN deleteApp(table, r.appid)
  ELSE SetStatus(table, r.appid, "stopped")

\* resetApp / ResetAppCommand.sendEvent: running on success, stopped otherwise
ThenResetWrite(table, r) ==
  IF r.success THEN SetStatus(table, r.appid, "running")
  ELSE SetStatus(table, r.appid, "stopped")

\* the callbacks that only write the record
ThenWrite(table, r) ==
  CASE r.command = "start" -> ThenStartWrite(table, r)
    [] r.command = "install" -> ThenInstallWrite(table, r)
    [] r.command = "stop" -> ThenStopWrite(table, r)
    [] r.command = "uninstall" -> ThenUninstallWrite(table, r)
    [] r.command = "reset" -> ThenResetWrite(table, r)

Then(r) ==
  /\ r.command \in {"start", "install", "stop", "uninstall", "reset"}
  /\ appTable' = ThenWrite(appTable, r)
  /\ results' = results (-) SetToBag({r})
  /\ UNCHANGED <<queue, validated, unawaited, demoMode, startAll, exec, env>>

\* updateApp: on success the version is written and the app goes back to the
\* status it had (a running app through startApp); stopped on failure
ThenUpdate(r) ==
  /\ r.command = "update"
  /\ results' = results (-) SetToBag({r})
  /\ UNCHANGED <<validated, unawaited, demoMode, startAll, exec, env>>
  /\ LET versioned == SetVersion(appTable, r.appid, getAppInfo(r.appid).tipi_version) IN
     IF ~r.success
     THEN /\ appTable' = SetStatus(appTable, r.appid, "stopped")
          /\ queue' = queue
     ELSE IF r.before # "running"
     THEN /\ appTable' = SetStatus(versioned, r.appid, r.before)
          /\ queue' = queue
     ELSE IF startAppError(versioned, r.appid) # "none"
     THEN /\ appTable' = versioned
          /\ queue' = queue
     ELSE /\ appTable' = SetStatus(versioned, r.appid, "starting")
          /\ queue' = StartDispatch(versioned, queue, r.appid, "service")

\* what updateAppConfig writes once generate_env succeeded
ConfigWrite(table, id, form) ==
  [i \in DOMAIN table |->
     IF table[i].id = id
     THEN [table[i] EXCEPT !.exposed = Exposed(form),
                           !.domain = DomainOrNull(form),
                           !.config = form,
                           !.isVisibleOnGuestDashboard =
                              IF Has(form, "isVisibleOnGuestDashboard")
                              THEN form.isVisibleOnGuestDashboard ELSE @]
     ELSE table[i]]

\* what UpdateAppConfigCommand writes once generate_env succeeded
CommandConfigWrite(table, id, form) ==
  [i \in DOMAIN table |->
     IF table[i].id = id
     THEN [table[i] EXCEPT !.exposed = Exposed(form),
                           !.exposedLocal = OrFalse(form, "exposedLocal"),
                           !.openPort = OrFalse(form, "openPort"),
                           !.domain = DomainOrNull(form),
                           !.config = form,
                           !.isVisibleOnGuestDashboard =
                              IF Has(form, "isVisibleOnGuestDashboard")
                              THEN form.isVisibleOnGuestDashboard ELSE @]
     ELSE table[i]]

\* a resumption that would write the record whatever generate_env returned
GenerateEnvWrite_Always(table, r) ==
  IF r.via = "service" THEN ConfigWrite(table, r.appid, r.form)
  ELSE CommandConfigWrite(table, r.appid, r.form)

\* the table after updateAppConfig resumed with the result of generate_env
GenerateEnvWrite(table, r) ==
  IF ~r.success THEN table
  ELSE IF r.via = "service" THEN ConfigWrite(table, r.appid, r.form)
  ELSE CommandConfigWrite(table, r.appid, r.form)

\* what updateAppConfig throws once generate_env returned
GenerateEnvError(r) == IF r.success THEN "none" ELSE "app-failed-to-update"

\* updateAppConfig resumes: the record is written on success, the call fails
\* with app-failed-to-update otherwise
ThenGenerateEnv(r) ==
  /\ r.command = "generate_env"
  /\ appTable' = GenerateEnvWrite(appTable, r)
  /\ results' = results (-) SetToBag({r})
  /\ UNCHANGED <<queue, validated, unawaited, demoMode, startAll, exec, env>>

\* the lifecycle commands, each app installed with the same form
Next ==
  \/ \E id \in LifecycleIds : installApp(id, FormHello)
  \/ \E v \in BagToSet(validated) : installCreate(v)
  \/ \E id \in LifecycleIds : startApp(id)
  \/ \E id \in LifecycleIds : StartAppCommand(id)
  \/ \E id \in LifecycleIds : stopApp(id)
  \/ \E id \in LifecycleIds : uninstallApp(id)
  \/ \E id \in LifecycleIds : resetApp(id)
  \/ \E w \in BagToSet(unawaited) : WriteLands(w)
  \/ \E id \in LifecycleIds : ResetAppCommand(id)
  \/ \E id \in LifecycleIds : updateApp(id)
  \/ \E e \in BagToSet(queue), outcome \in Outcomes : WorkerRun(e, outcome)
  \/ \E r \in BagToSet(results) : Then(r)
  \/ \E r \in BagToSet(results) : ThenUpdate(r)

Spec == Init /\ [][Next]_vars

\* what runs without being asked for: the worker completes every event it was
\* given, a promise that resolved runs its callback, a write that was sent lands
\* and an install that passed its checks goes on to createApp; commands are
\* invoked or not
Fairness ==
  /\ WF_vars(\E e \in BagToSet(queue), outcome \in Outcomes : WorkerRun(e, outcome))
  /\ WF_vars(\E r \in BagToSet(results) : Then(r))
  /\ WF_vars(\E r \in BagToSet(results) : ThenUpdate(r))
  /\ WF_vars(\E w \in BagToSet(unawaited) : WriteLands(w))
  /\ WF_vars(\E v \in BagToSet(validated) : installCreate(v))

SpecFair == Init /\ [][Next]_vars /\ Fairness

\* the commands on an app next to another one: a has a record, running or stopped,
\* and every command is invoked for it, in any interleaving; b has a record too, in
\* any status, and no command is invoked for it
FrameIds == {"a"}
BystanderStatuses ==
  {"running", "stopped", "installing", "starting", "stopping", "updating", "uninstalling",
   "missing"}
InitFrame ==
  /\ \E sa \in {"running", "stopped"}, sb \in BystanderStatuses :
       appTable = <<NewRow("a", sa, FormHello, 1), NewRow("b", sb, FormHello, 1)>>
  /\ demoMode = FALSE
  /\ queue = EmptyBag
  /\ results = EmptyBag
  /\ validated = EmptyBag
  /\ unawaited = EmptyBag
  /\ startAll = NoStartAll
  /\ exec = NoExec
  /\ env = NoEnv

NextFrame ==
  \/ \E id \in FrameIds : installApp(id, FormHello)
  \/ \E v \in BagToSet(validated) : installCreate(v)
  \/ \E id \in FrameIds : startApp(id)
  \/ \E id \in FrameIds : StartAppCommand(id)
  \/ \E id \in FrameIds : stopApp(id)
  \/ \E id \in FrameIds : uninstallApp(id)
  \/ \E id \in FrameIds : resetApp(id)
  \/ \E w \in BagToSet(unawaited) : WriteLands(w)
  \/ \E id \in FrameIds : ResetAppCommand(id)
  \/ \E id \in FrameIds : updateApp(id)
  \/ \E id \in FrameIds : updateAppConfig(id, FormHello)
  \/ \E id \in FrameIds : UpdateAppConfigCommand(id, FormHello)
  \/ \E e \in BagToSet(queue), outcome \in Outcomes : WorkerRun(e, outcome)
  \/ \E r \in BagToSet(results) : Then(r)
  \/ \E r \in BagToSet(results) : ThenUpdate(r)
  \/ \E r \in BagToSet(results) : ThenGenerateEnv(r)

SpecFrame == InitFrame /\ [][NextFrame]_vars

\* install and updateAppConfig requests with every form, in any interleaving, an
\* install being admitted while fewer than MaxInstalls are between validation and
\* createApp
NextConfig ==
  \/ \E id \in AppIds, form \in Forms :
       BagCardinality(validated) < MaxInstalls /\ installApp(id, form)
  \/ \E v \in BagToSet(validated) : installCreate(v)
  \/ \E id \in AppIds, form \in Forms : updateAppConfig(id, form)
  \/ \E id \in AppIds, form \in Forms : UpdateAppConfigCommand(id, form)
  \/ \E e \in BagToSet(queue), outcome \in Outcomes : WorkerRun(e, outcome)
  \/ \E r \in BagToSet(results) : Then(r)
  \/ \E r \in BagToSet(results) : ThenGenerateEnv(r)

SpecConfig == InitConfig /\ [][NextConfig]_vars

\* updates of installed apps: a and c are installed, each running or stopped, at a
\* version older than the catalog's; c asks for a newer host
UpdateIds == {"a", "c"}
InitUpdate ==
  /\ \E sa \in {"running", "stopped"}, sc \in {"running", "stopped"} :
       appTable = <<NewRow("a", sa, FormHello, 0), NewRow("c", sc, FormHello, 0)>>
  /\ demoMode = FALSE
  /\ queue = EmptyBag
  /\ results = EmptyBag
  /\ validated = EmptyBag
  /\ unawaited = EmptyBag
  /\ startAll = NoStartAll
  /\ exec = NoExec
  /\ env = NoEnv

NextUpdate ==
  \/ \E id \in UpdateIds : updateApp(id)
  \/ \E e \in BagToSet(queue), outcome \in Outcomes : WorkerRun(e, outcome)
  \/ \E r \in BagToSet(results) : Then(r)
  \/ \E r \in BagToSet(results) : ThenUpdate(r)

SpecUpdate == InitUpdate /\ [][NextUpdate]_vars

----------------------------------------------------------------------------
(* startAllApps: AppExecutors.startAllApps of the worker and               *)
(* AppServiceClass.startAllApps of the dashboard                           *)

\* getAppsByStatus(status)
getAppsByStatus(table, status) == SelectSeq(table, LAMBDA r : r.status = status)

\* an update that would reach the rows whose status is in the array
updateAppsByStatusNotIn_In(table, statuses, status) ==
  [i \in DOMAIN table |->
     IF table[i].status \in statuses THEN [table[i] EXCEPT !.status = status]
     ELSE table[i]]

\* updateAppsByStatusNotIn(statuses, { status })
updateAppsByStatusNotIn(table, statuses, status) ==
  [i \in DOMAIN table |->
     IF table[i].status \notin statuses THEN [table[i] EXCEPT !.status = status]
     ELSE table[i]]

\* a selection that would take every row whatever forceStartAll says
StartAllSelection_All(table, forceStartAll) == table

\* the rows startAllApps selects: the running ones, or all of them when forced
StartAllSelection(table, forceStartAll) ==
  IF ~forceStartAll THEN getAppsByStatus(table, "running") ELSE table

\* a loop that would stop at the first app that fails to start
StartAllRest_Abort(apps, success) == IF success THEN Tail(apps) ELSE <<>>

\* the rows the loop of the worker still has to start once it dealt with the
\* first of them
StartAllRest(apps, success) == Tail(apps)

Ids(rows) == {rows[i].id : i \in DOMAIN rows}

\* the statuses the three apps may be found in when startAllApps is called
FoundStatuses == {"running", "stopped", "installing", "missing"}

\* startAllApps is called by the worker (forced or not) or by the dashboard on a
\* table of three apps; was keeps the status each app was found in, attempted
\* the apps a start was attempted for
InitStartAll ==
  /\ \E sa \in FoundStatuses, sb \in FoundStatuses, sc \in FoundStatuses :
       appTable = <<NewRow("a", sa, FormHello, 1), NewRow("b", sb, FormHello, 1),
                    NewRow("c", sc, FormHello, 1)>>
  /\ \E by \in {"worker", "service"}, forceStartAll \in BOOLEAN :
       /\ by = "service" => ~forceStartAll
       /\ startAll = [pc |-> "called", by |-> by, forceStartAll |-> forceStartAll,
                      selected |-> {}, apps |-> <<>>, attempted |-> {},
                      was |-> [id \in Ids(appTable) |-> StatusOf(appTable, id)]]
  /\ demoMode = FALSE
  /\ queue = EmptyBag
  /\ results = EmptyBag
  /\ validated = EmptyBag
  /\ unawaited = EmptyBag
  /\ exec = NoExec
  /\ env = NoEnv

\* the rows are selected
StartAllSelect ==
  /\ startAll.pc = "called"
  /\ LET apps == StartAllSelection(appTable, startAll.forceStartAll) IN
     startAll' = [startAll EXCEPT !.pc = "selected", !.apps = apps, !.selected = Ids(apps)]
  /\ UNCHANGED <<appTable, queue, results, validated, unawaited, demoMode, exec, env>>

\* every row that is in neither of running, stopped, missing is set to stopped
StartAllNormalize ==
  /\ startAll.pc = "selected"
  /\ appTable' = updateAppsByStatusNotIn(appTable, {"running", "stopped", "missing"}, "stopped")
  /\ startAll' = [startAll EXCEPT !.pc = "starting"]
  /\ UNCHANGED <<queue, results, validated, unawaited, demoMode, exec, env>>

\* the worker starts the next selected app itself and records how it went
WorkerStartNext(outcome) ==
  /\ startAll.pc = "starting"
  /\ startAll.by = "worker"
  /\ startAll.apps # <<>>
  /\ outcome \in {"ok", "fail"}
  /\ LET row == Head(startAll.apps)
         e == Event("start", row.id, row.config, "startAll", row.status, row.status)
         started == ExecutorWrite(appTable, e, outcome)
     IN /\ appTable' = IF Success(outcome) THEN SetStatus(started, row.id, "running")
                       ELSE SetStatus(started, row.id, "stopped")
        /\ startAll' = [startAll EXCEPT !.apps = StartAllRest(@, Success(outcome)),
                                        !.attempted = @ \cup {row.id}]
  /\ UNCHANGED <<queue, results, validated, unawaited, demoMode, exec, env>>

\* the dashboard marks one selected app starting and dispatches its start event
ServiceStartOne(i) ==
  /\ startAll.pc = "starting"
  /\ startAll.by = "service"
  /\ i \in DOMAIN startAll.apps
  /\ LET row == startAll.apps[i] IN
     /\ appTable' = SetStatus(appTable, row.id, "starting")
     /\ queue' = Dispatch(queue, Event("start", row.id, row.config, "startAll",
                                       row.status, "starting"))
     /\ startAll' = [startAll EXCEPT
                       !.apps = SelectSeq(@, LAMBDA r : r.id # row.id),
                       !.attempted = @ \cup {row.id}]
  /\ UNCHANGED <<results, validated, unawaited, demoMode, exec, env>>

\* startAllApps returns
StartAllReturn ==
  /\ startAll.pc = "starting"
  /\ startAll.apps = <<>>
  /\ startAll' = [startAll EXCEPT !.pc = "done"]
  /\ UNCHANGED <<appTable, queue, results, validated, unawaited, demoMode, exec, env>>

NextStartAll ==
  \/ StartAllSelect
  \/ StartAllNormalize
  \/ \E outcome \in Outcomes : WorkerStartNext(outcome)
  \/ \E i \in 1..3 : ServiceStartOne(i)
  \/ StartAllReturn
  \/ \E e \in BagToSet(queue), outcome \in Outcomes : WorkerRun(e, outcome)
  \/ \E r \in BagToSet(results) : Then(r)

SpecStartAll == InitStartAll /\ [][NextStartAll]_vars

----------------------------------------------------------------------------
(* AppExecutors: one command of the worker followed step by step           *)

\* a step of a command. kind: "start" and "success" publish a socket event,
\* "check" tests a precondition, "fs", "compose", "lib", "read" and "db" can fail.
\* tol: whether the command goes on when the step fails ("no", "always", or
\* "conflict": only for an Error whose message includes conflict); skip: how many
\* of the next steps share its try block and are skipped when it fails;
\* scope: "backup" for the steps of the backupApp that updateApp calls first
Step(name, kind, tol) == [name |-> name, kind |-> kind, tol |-> tol, skip |-> 0, scope |-> "main"]

\* ensureAppDir: the app folder is copied from the repo when it has no
\* docker-compose.yml; errors of the compose file generation and of chmod are
\* caught and logged
ensureAppDir ==
  << Step("ensureAppDir: rm, cp", "fs", "no"),
     Step("ensureAppDir: write docker-compose.yml", "fs", "always"),
     Step("ensureAppDir: chmod", "fs", "always") >>

\* an install that would delete the installed folder before it looks for the app
\* in the repo
installSteps_RmFirst ==
  << Step("status_change", "start", "no"),
     Step("rm appDir", "fs", "no"),
     Step("readdir repo apps", "read", "no"),
     Step("apps.includes(appId)", "check", "no"),
     Step("mkdir appDir", "fs", "no"),
     Step("cp repo appDir", "fs", "no"),
     Step("mkdir appDataDir", "fs", "no"),
     Step("generateEnvFile", "lib", "no"),
     Step("copyDataDir", "lib", "no") >>
  \o ensureAppDir \o
  << Step("compose up", "compose", "no"),
     Step("install_success", "success", "no") >>

installSteps ==
  << Step("status_change", "start", "no"),
     Step("readdir repo apps", "read", "no"),
     Step("apps.includes(appId)", "check", "no"),
     Step("rm appDir", "fs", "no"),
     Step("mkdir appDir", "fs", "no"),
     Step("cp repo appDir", "fs", "no"),
     Step("mkdir appDataDir", "fs", "no"),
     Step("generateEnvFile", "lib", "no"),
     Step("copyDataDir", "lib", "no") >>
  \o ensureAppDir \o
  << Step("compose up", "compose", "no"),
     Step("install_success", "success", "no") >>

stopSteps ==
  << Step("pathExists(config.json)", "check", "no"),
     Step("status_change", "start", "no") >>
  \o ensureAppDir \o
  << Step("generateEnvFile", "lib", "no"),
     Step("compose rm", "compose", "no"),
     Step("stop_success", "success", "no"),
     Step("update status", "db", "no") >>

restartSteps ==
  << Step("pathExists(config.json)", "check", "no"),
     Step("status_change", "start", "no") >>
  \o ensureAppDir \o
  << Step("generateEnvFile", "lib", "no"),
     Step("compose rm", "compose", "no"),
     Step("generateEnvFile again", "lib", "no"),
     Step("compose up", "compose", "no"),
     Step("restart_success", "success", "no") >>

startSteps ==
  << Step("status_change", "start", "no") >>
  \o ensureAppDir \o
  << Step("generateEnvFile", "lib", "no"),
     Step("compose up", "compose", "no"),
     Step("start_success", "success", "no"),
     Step("update status", "db", "no") >>

\* an uninstall whose compose down would have no catch block of its own
uninstallSteps_DownFatal ==
  << Step("status_change", "start", "no") >>
  \o ensureAppDir \o
  << Step("generateEnvFile", "lib", "no"),
     Step("compose down", "compose", "no"),
     Step("rm appDir", "fs", "always"),
     Step("rm appDataDir", "fs", "always"),
     Step("uninstall_success", "success", "no"),
     Step("delete row", "db", "no") >>

uninstallSteps ==
  << Step("status_change", "start", "no") >>
  \o ensureAppDir \o
  << Step("generateEnvFile", "lib", "no"),
     Step("compose down", "compose", "conflict"),
     Step("rm appDir", "fs", "always"),
     Step("rm appDataDir", "fs", "always"),
     Step("uninstall_success", "success", "no"),
     Step("delete row", "db", "no") >>

\* a reset that would leave the status of the record to the dashboard
resetSteps_NoStatusWrite ==
  << Step("status_change", "start", "no") >>
  \o ensureAppDir \o
  << Step("generateEnvFile", "lib", "no"),
     Step("compose down", "compose", "conflict"),
     Step("rm appDataDir", "fs", "always"),
     Step("generateEnvFile again", "lib", "no"),
     Step("copyDataDir", "lib", "no") >>
  \o ensureAppDir \o
  << Step("compose up", "compose", "no"),
     Step("reset_success", "success", "no") >>

resetSteps ==
  << Step("status_change", "start", "no") >>
  \o ensureAppDir \o
  << Step("generateEnvFile", "lib", "no"),
     Step("compose down", "compose", "conflict"),
     Step("rm appDataDir", "fs", "always"),
     Step("generateEnvFile again", "lib", "no"),
     Step("copyDataDir", "lib", "no") >>
  \o ensureAppDir \o
  << Step("compose up", "compose", "no"),
     Step("reset_success", "success", "no"),
     Step("update status", "db", "no") >>

backupSteps ==
  << Step("status_change", "start", "no"),
     Step("compose rm", "compose", "no"),
     Step("mkdir tempDir", "fs", "no"),
     Step("cp appDataDir", "fs", "no"),
     Step("cp appDir", "fs", "no"),
     Step("cp user-config", "fs", "no"),
     Step("createTarGz", "lib", "no"),
     Step("mkdir backupDir", "fs", "no"),
     Step("cp archive", "fs", "no"),
     Step("rm tempDir", "fs", "no"),
     Step("backup_success", "success", "no") >>

\* updateApp: the two cleanup calls of compose share a try block whose errors are
\* logged; with performBackup the steps of backupApp come first
updateOwnSteps ==
  << Step("status_change", "start", "no") >>
  \o ensureAppDir \o
  << Step("generateEnvFile", "lib", "no"),
     [Step("compose up", "compose", "always") EXCEPT !.skip = 1],
     Step("compose down", "compose", "always"),
     Step("rm appDir", "fs", "no"),
     Step("cp repo appDir", "fs", "no") >>
  \o ensureAppDir \o
  << Step("compose pull", "compose", "no"),
     Step("update_success", "success", "no") >>

updateSteps(performBackup) ==
  IF performBackup
  THEN [i \in DOMAIN backupSteps |-> [backupSteps[i] EXCEPT !.scope = "backup"]]
         \o updateOwnSteps
  ELSE updateOwnSteps

\* a restore that would remove the old folders before it looks for the archive
restoreSteps_RmFirst ==
  << Step("status_change", "start", "no"),
     Step("rm appDataDir", "fs", "no"),
     Step("rm appDir", "fs", "no"),
     Step("rm user-config", "fs", "no"),
     Step("pathExists(archive)", "check", "no"),
     Step("compose rm", "compose", "no"),
     Step("mkdir restoreDir", "fs", "no"),
     Step("extractTarGz", "lib", "no"),
     Step("mkdir appDataDir", "fs", "no"),
     Step("mkdir appDir", "fs", "no"),
     Step("cp app", "fs", "no"),
     Step("cp app-data", "fs", "no"),
     Step("cp user-config", "fs", "no"),
     Step("rm restoreDir", "fs", "no"),
     Step("readFile config.json", "read", "no"),
     Step("update version", "db", "no"),
     Step("restore_success", "success", "no") >>

restoreSteps ==
  << Step("status_change", "start", "no"),
     Step("pathExists(archive)", "check", "no"),
     Step("compose rm", "compose", "no"),
     Step("mkdir restoreDir", "fs", "no"),
     Step("extractTarGz", "lib", "no"),
     Step("rm appDataDir", "fs", "no"),
     Step("rm appDir", "fs", "no"),
     Step("rm user-config", "fs", "no"),
     Step("mkdir appDataDir", "fs", "no"),
     Step("mkdir appDir", "fs", "no"),
     Step("cp app", "fs", "no"),
     Step("cp app-data", "fs", "no"),
     Step("cp user-config", "fs", "no"),
     Step("rm restoreDir", "fs", "no"),
     Step("readFile config.json", "read", "no"),
     Step("update version", "db", "no"),
     Step("restore_success", "success", "no") >>

regenerateAppEnvSteps ==
  ensureAppDir \o
  << Step("generateEnvFile", "lib", "no"),
     Step("generate_env_success", "success", "no") >>

ExecCommands == {"install", "start", "stop", "restart", "uninstall", "reset", "update",
                 "backup", "restore", "generate_env"}

StepsOf(command, performBackup) ==
  CASE command = "install" -> installSteps
    [] command = "start" -> startSteps
    [] command = "stop" -> stopSteps
    [] command = "restart" -> restartSteps
    [] command = "uninstall" -> uninstallSteps
    [] command = "reset" -> resetSteps
    [] command = "update" -> updateSteps(performBackup)
    [] command = "backup" -> backupSteps
    [] command = "restore" -> restoreSteps
    [] command = "generate_env" -> regenerateAppEnvSteps

\* the app the command is run for, and the repo of the worker
ExecAppId == "a"
ExecRepoId == "repo"

\* the error event of each command
ErrorEvent(command) ==
  CASE command = "install" -> "install_error"
    [] command = "start" -> "start_error"
    [] command = "stop" -> "stop_error"
    [] command = "restart" -> "restart_error"
    [] command = "uninstall" -> "uninstall_error"
    [] command = "reset" -> "reset_error"
    [] command = "update" -> "update_error"
    [] command = "backup" -> "backup_error"
    [] command = "restore" -> "restore_error"
    [] command = "generate_env" -> "generate_env_error"

\* the appStatus the success event of each command carries; generate_env_success
\* carries none
SuccessStatus(command) ==
  CASE command \in {"install", "start", "restart", "reset"} -> "running"
    [] command \in {"stop", "update", "backup", "restore"} -> "stopped"
    [] command = "uninstall" -> "missing"
    [] command = "generate_env" -> "none"

\* what a failing step throws: an Error with a message, for compose possibly one
\* whose message includes conflict; functions of other packages may throw a
\* value that is not an Error
Thrown(isError, conflict, message) ==
  [thrown |-> TRUE, isError |-> isError, conflict |-> conflict, message |-> message]
NoThrow == [thrown |-> FALSE, isError |-> FALSE, conflict |-> FALSE, message |-> <<>>]
ErrorsOf(step) ==
  {Thrown(TRUE, FALSE, <<step.name>>)}
    \cup (IF step.kind = "compose" THEN {Thrown(TRUE, TRUE, <<step.name, "conflict">>)} ELSE {})
    \cup (IF step.kind = "lib" THEN {Thrown(FALSE, FALSE, <<step.name>>)} ELSE {})

Fallible == {"fs", "compose", "lib", "read", "db"}

\* catch blocks that would swallow every error of the step
Tolerated_NoConflictTest(step, err) == step.tol \in {"always", "conflict"}

\* the catch blocks inside the commands
Tolerated(step, err) ==
  \/ step.tol = "always"
  \/ step.tol = "conflict" /\ err.isError /\ err.conflict

\* a handler that would return the message without looking at what was thrown
handleAppErrorMessage_Plain(err) == err.message

\* handleAppError: the message returned for what was thrown
handleAppErrorMessage(err) ==
  IF err.isError THEN err.message ELSE <<"An error occurred: ">> \o err.message

\* the folders of the app. A folder is the set of its files; a file is where it is
\* under the folder and what it holds
File(path, content) == [path |-> path, content |-> content]
Paths(tree) == {f.path : f \in tree}
pathExists(tree, path) == path \in Paths(tree)

\* a copy that would replace the folder it copies into
cp_Replace(src, dst) == src

\* fs.promises.cp, recursive: the files of src replace those of dst at the same path
cp(src, dst) == {f \in dst : f.path \notin Paths(src)} \cup src

\* the files of the data subfolder
DataPaths == {"data/seed.txt"}
DataDir(tree) == {f \in tree : f.path \in DataPaths}

\* getAppPaths, repoPath: the folder of the app in the repo, with its seed data and,
\* for some apps, a docker-compose.json
RepoDir(hasComposeJson) ==
  {File("docker-compose.yml", "repo"), File("config.json", "tipi_version 1"),
   File("data/seed.txt", "seed")}
    \cup (IF hasComposeJson THEN {File("docker-compose.json", "repo")} ELSE {})

\* what is on the disk when the command is called: nothing; an installed app whose
\* files the user has edited; an installed folder that has lost its docker-compose.yml
ExecWorlds == {"fresh", "installed", "no compose file"}
AppDirOf(world) ==
  CASE world = "fresh" -> {}
    [] world = "installed" -> {File("docker-compose.yml", "user"),
                               File("config.json", "tipi_version 1"),
                               File("test.txt", "user")}
    [] world = "no compose file" -> {File("config.json", "tipi_version 1"),
                                     File("test.txt", "user")}
AppDataDirOf(world) ==
  CASE world = "fresh" -> {}
    [] world = "installed" -> {File("app.env", "user"), File("data/seed.txt", "user"),
                               File("test.txt", "user")}
    [] world = "no compose file" -> {File("test.txt", "user")}
UserConfigOf(world) ==
  IF world = "installed" THEN {File("docker-compose.yml", "user")} ELSE {}

\* the three folders of a backup, in the scratch folder or in an archive
EmptyDirs == [app |-> {}, appData |-> {}, userConfig |-> {}]
ArchiveConfigs == {"tipi_version 1", "tipi_version 2"}
Archive(config, withUserConfig) ==
  [app |-> {File("docker-compose.yml", "backup"), File("config.json", config)},
   appData |-> {File("app.env", "backup"), File("data/seed.txt", "backup")},
   userConfig |-> IF withUserConfig THEN {File("docker-compose.yml", "backup")} ELSE {}]

\* restoreApp: the archive named by filename
TheArchive(fs) == CHOOSE a \in fs.backups : TRUE

\* appInfoSchema.safeParse(JSON.parse(configFileRaw)).data?.tipi_version
tipiVersionOf(content) ==
  CASE content = "tipi_version 1" -> 1
    [] content = "tipi_version 2" -> 2
ConfigJson(tree) == CHOOSE f \in tree : f.path = "config.json"

\* generateEnvFile writes app.env in the data folder of the app
generateEnvFile(fs) == [fs EXCEPT !.appData = cp({File("app.env", "generated")}, @)]

\* copyDataDir copies the data folder of the repo into the data folder of the app
copyDataDir(fs) == [fs EXCEPT !.appData = cp(DataDir(fs.repo), @)]

\* archiveManager.createTarGz makes an archive of the scratch folder, and
\* archiveManager.extractTarGz extracts the archive into the scratch folder, all of
\* it or, when it throws, nothing
createTarGz(fs) == [fs EXCEPT !.tar = {fs.tmp}]
extractTarGz(fs) == [fs EXCEPT !.tmp = TheArchive(fs)]

\* a seeding that would not look for the data subfolder
DataDirExists_Never(fs) == FALSE

\* installApp, resetApp: pathExists(`${appDataDirPath}/data`)
DataDirExists(fs) == DataDir(fs.appData) # {}

\* the steps a command leaves out: ensureAppDir copies the folder only when it has no
\* docker-compose.yml and writes one only when the repo has a docker-compose.json;
\* the seed data are copied only when there is no data subfolder; user-config is
\* copied only when it exists
StepSkipped(fs, command, name) ==
  CASE name = "ensureAppDir: rm, cp" -> pathExists(fs.appDir, "docker-compose.yml")
    [] name = "ensureAppDir: write docker-compose.yml" ->
         ~pathExists(fs.repo, "docker-compose.json")
    [] name = "copyDataDir" -> DataDirExists(fs)
    [] name = "cp user-config" ->
         IF command = "restore" THEN fs.tmp.userConfig = {} ELSE fs.userConfig = {}
    [] OTHER -> FALSE

\* what a step that succeeds does to the folders and to the containers
FsStep(fs, command, name) ==
  CASE name = "ensureAppDir: rm, cp" -> [fs EXCEPT !.appDir = fs.repo]
    [] name = "ensureAppDir: write docker-compose.yml" ->
         [fs EXCEPT !.appDir = cp({File("docker-compose.yml", "generated")}, @)]
    [] name = "rm appDir" -> [fs EXCEPT !.appDir = {}]
    [] name = "cp repo appDir" -> [fs EXCEPT !.appDir = cp(fs.repo, @)]
    [] name = "rm appDataDir" -> [fs EXCEPT !.appData = {}]
    [] name = "rm user-config" -> [fs EXCEPT !.userConfig = {}]
    [] name \in {"generateEnvFile", "generateEnvFile again"} -> generateEnvFile(fs)
    [] name = "copyDataDir" -> copyDataDir(fs)
    [] name = "compose up" -> [fs EXCEPT !.containers = "up"]
    [] name \in {"compose rm", "compose down"} -> [fs EXCEPT !.containers = "down"]
    [] name = "cp appDataDir" -> [fs EXCEPT !.tmp.appData = fs.appData]
    [] name = "cp appDir" -> [fs EXCEPT !.tmp.app = fs.appDir]
    [] name = "cp user-config" /\ command # "restore" ->
         [fs EXCEPT !.tmp.userConfig = fs.userConfig]
    [] name = "createTarGz" -> createTarGz(fs)
    [] name = "cp archive" -> [fs EXCEPT !.backups = @ \cup fs.tar]
    [] name \in {"rm tempDir", "rm restoreDir"} -> [fs EXCEPT !.tmp = EmptyDirs, !.tar = {}]
    [] name = "extractTarGz" -> extractTarGz(fs)
    [] name = "cp app" -> [fs EXCEPT !.appDir = cp(fs.tmp.app, @)]
    [] name = "cp app-data" -> [fs EXCEPT !.appData = cp(fs.tmp.appData, @)]
    [] name = "cp user-config" /\ command = "restore" ->
         [fs EXCEPT !.userConfig = cp(fs.tmp.userConfig, @)]
    [] OTHER -> fs

\* what a rm that fails may leave, and what a cp that fails may have copied: any
\* part of the files
Remaining(tree) == IF tree = {} THEN {{}} ELSE SUBSET tree \ {{}}
Copied(src) == IF src = {} THEN {{}} ELSE SUBSET src \ {src}

\* what a step that throws may have done to the folders
FsFailed(fs, command, name) ==
  CASE name = "ensureAppDir: rm, cp" ->
         {[fs EXCEPT !.appDir = left] : left \in Remaining(fs.appDir)}
           \cup {[fs EXCEPT !.appDir = part] : part \in Copied(fs.repo)}
    [] name = "rm appDir" -> {[fs EXCEPT !.appDir = left] : left \in Remaining(fs.appDir)}
    [] name = "rm appDataDir" ->
         {[fs EXCEPT !.appData = left] : left \in Remaining(fs.appData)}
    [] name = "rm user-config" ->
         {[fs EXCEPT !.userConfig = left] : left \in Remaining(fs.userConfig)}
    [] name = "cp repo appDir" ->
         {[fs EXCEPT !.appDir = cp(part, @)] : part \in Copied(fs.repo)}
    [] name = "copyDataDir" ->
         {[fs EXCEPT !.appData = cp(part, @)] : part \in Copied(DataDir(fs.repo))}
    [] name = "cp app" -> {[fs EXCEPT !.appDir = cp(part, @)] : part \in Copied(fs.tmp.app)}
    [] name = "cp app-data" ->
         {[fs EXCEPT !.appData = cp(part, @)] : part \in Copied(fs.tmp.appData)}
    [] name = "cp user-config" /\ command = "restore" ->
         {[fs EXCEPT !.userConfig = cp(part, @)] : part \in Copied(fs.tmp.userConfig)}
    [] OTHER -> {fs}

\* a command is called for app a, which has a record; cond is the precondition the
\* command tests (the app is in the repo, the installed folder has a config.json,
\* the archive exists)
InitExec ==
  /\ \E command \in ExecCommands, cond \in BOOLEAN, performBackup \in BOOLEAN,
        world \in ExecWorlds, hasComposeJson \in BOOLEAN, status \in {"running", "stopped"},
        version \in {0, 3}, config \in ArchiveConfigs, withUserConfig \in BOOLEAN :
       /\ ~cond => command \in {"install", "stop", "restart", "restore"}
       /\ performBackup => command = "update"
       /\ command \in {"stop", "restart"} => (cond <=> pathExists(AppDirOf(world), "config.json"))
       /\ status = "stopped" => command \in {"backup", "reset"}
       /\ version # 0 => command = "restore"
       /\ (config # "tipi_version 1" \/ withUserConfig) => (command = "restore" /\ cond)
       /\ appTable = <<NewRow(ExecAppId, status, FormHello, version)>>
       /\ exec = [pc |-> "running", command |-> command, cond |-> cond,
                  steps |-> StepsOf(command, performBackup), at |-> 1,
                  events |-> <<>>, calls |-> {}, tolerated |-> {}, failed |-> <<>>,
                  ret |-> Null,
                  was |-> status,
                  fs |-> [repo |-> IF command = "install" /\ ~cond THEN {}
                                   ELSE RepoDir(hasComposeJson),
                          appDir |-> AppDirOf(world),
                          appData |-> AppDataDirOf(world),
                          userConfig |-> UserConfigOf(world),
                          tmp |-> EmptyDirs,
                          tar |-> {},
                          backups |-> IF command = "restore" /\ cond
                                      THEN {Archive(config, withUserConfig)} ELSE {},
                          containers |-> IF status = "running" THEN "up" ELSE "down"],
                  fs0 |-> [appDir |-> AppDirOf(world), appData |-> AppDataDirOf(world),
                           userConfig |-> UserConfigOf(world)]]
  /\ demoMode = FALSE
  /\ queue = EmptyBag
  /\ results = EmptyBag
  /\ validated = EmptyBag
  /\ unawaited = EmptyBag
  /\ startAll = NoStartAll
  /\ env = NoEnv

ExecRunning == exec.pc = "running" /\ exec.at <= Len(exec.steps)
ExecStepNow == exec.steps[exec.at]

\* the catch block of the command: handleAppError publishes the error event and
\* the command returns what it returns
ExecCatch(run, step, err) ==
  [run EXCEPT !.pc = "returned",
               !.events = Append(@, ErrorEvent(exec.command)),
               !.failed = <<[step |-> step.name, kind |-> step.kind, err |-> err]>>,
               !.ret = [success |-> FALSE, message |-> handleAppErrorMessage(err)]]

\* socketManager.emit of the status change or of the success event
ExecPublish ==
  /\ ExecRunning
  /\ ExecStepNow.kind \in {"start", "success"}
  /\ exec' = [exec EXCEPT !.at = @ + 1, !.events = Append(@, ExecStepNow.name)]
  /\ UNCHANGED <<appTable, queue, results, validated, unawaited, demoMode, startAll, env>>

\* the precondition a command tests: installApp returns a failure without
\* throwing, stopApp and restartApp return a success, restoreApp throws
ExecCheck ==
  /\ ExecRunning
  /\ ExecStepNow.kind = "check"
  /\ exec' =
       IF exec.cond THEN [exec EXCEPT !.at = @ + 1]
       ELSE CASE exec.command = "install" ->
                   [exec EXCEPT !.pc = "returned",
                                !.ret = [success |-> FALSE,
                                         message |-> <<"App ", ExecAppId, " not found in repo ",
                                                       ExecRepoId>>]]
              [] exec.command \in {"stop", "restart"} ->
                   [exec EXCEPT !.pc = "returned",
                                !.ret = [success |-> TRUE,
                                         message |-> <<"App ", ExecAppId,
                                                       " is not an app. Skipping...">>]]
              [] exec.command = "restore" ->
                   ExecCatch(exec, ExecStepNow,
                             Thrown(TRUE, FALSE, <<"The backup file does not exist">>))
  /\ UNCHANGED <<appTable, queue, results, validated, unawaited, demoMode, startAll, env>>

\* a restore that would set the version of the app in the repo
ExecDbWrite_RepoVersion(table, command, fs) ==
  IF command = "restore"
  THEN SetVersion(table, ExecAppId, getAppInfo(ExecAppId).tipi_version)
  ELSE ExecutorWrite(table, Event(command, ExecAppId, FormHello, "worker", "running", "running"),
                     "ok")

\* what a step of kind db writes
ExecDbWrite(table, command, fs) ==
  IF command = "restore"
  THEN SetVersion(table, ExecAppId, tipiVersionOf(ConfigJson(fs.appDir).content))
  ELSE ExecutorWrite(table, Event(command, ExecAppId, FormHello, "worker", "running", "running"),
                     "ok")

\* the first step after those of the backupApp called by updateApp
AfterBackup == Len(backupSteps) + 1

\* a step on the filesystem, the container runtime or the database succeeds or throws
ExecRun(outcome) ==
  /\ ExecRunning
  /\ ExecStepNow.kind \in Fallible
  /\ outcome \in {NoThrow} \cup ErrorsOf(ExecStepNow)
  /\ LET step == ExecStepNow
         skipped == StepSkipped(exec.fs, exec.command, step.name)
     IN
     /\ outcome.thrown => ~skipped
     /\ \E after \in (IF skipped THEN {exec.fs}
                      ELSE IF outcome.thrown THEN FsFailed(exec.fs, exec.command, step.name)
                      ELSE {FsStep(exec.fs, exec.command, step.name)}) :
          LET called == [exec EXCEPT !.calls = IF ~skipped /\ step.kind \in {"fs", "compose", "lib"}
                                               THEN @ \cup {step.name} ELSE @,
                                     !.fs = after]
          IN IF ~outcome.thrown
             THEN /\ exec' = [called EXCEPT !.at = @ + 1]
                  /\ appTable' = IF step.kind = "db"
                                 THEN ExecDbWrite(appTable, exec.command, exec.fs)
                                 ELSE appTable
             ELSE /\ appTable' = appTable
                  /\ exec' =
                       IF Tolerated(step, outcome)
                       THEN [called EXCEPT !.at = @ + 1 + step.skip,
                                           !.tolerated = @ \cup {[step |-> step.name,
                                                                  err |-> outcome]}]
                       ELSE IF step.scope = "backup"
                       THEN [called EXCEPT !.at = AfterBackup,
                                           !.events = Append(@, ErrorEvent("backup"))]
                       ELSE ExecCatch(called, step, outcome)
  /\ UNCHANGED <<queue, results, validated, unawaited, demoMode, startAll, env>>

\* the command returns its success
ExecReturn ==
  /\ exec.pc = "running"
  /\ exec.at > Len(exec.steps)
  /\ exec' = [exec EXCEPT !.pc = "returned",
                          !.ret = [success |-> TRUE,
                                   message |-> <<"App ", ExecAppId, exec.command,
                                                 " successfully">>]]
  /\ UNCHANGED <<appTable, queue, results, validated, unawaited, demoMode, startAll, env>>

NextExec ==
  \/ ExecPublish
  \/ ExecCheck
  \/ \E outcome \in {NoThrow} \cup UNION {ErrorsOf(exec.steps[i]) : i \in DOMAIN exec.steps} :
       ExecRun(outcome)
  \/ ExecReturn

SpecExec == InitExec /\ [][NextExec]_vars

----------------------------------------------------------------------------
(* generateEnvFile: the environment file of an app                         *)

\* an app whose first form field would not be required
TestField_Optional == [env_variable |-> "TEST_FIELD", type |-> "text", required |-> FALSE]

\* createApp of the tests: the form field every app has
TestField == [env_variable |-> "TEST_FIELD", type |-> "text", required |-> TRUE]

\* an app whose second form field would be a text field
RandomField_Text == [env_variable |-> "RANDOM_FIELD", type |-> "text", required |-> FALSE]

\* createApp of the tests: the form field pushed for randomField
RandomField == [env_variable |-> "RANDOM_FIELD", type |-> "random", required |-> FALSE]

FormFields(randomField) == IF randomField THEN <<TestField, RandomField>> ELSE <<TestField>>

\* appInfo.port, as the file shows it
AppPort == "3000"

\* a record that would never be exposed
EnvEntity_NotExposed(exposed, domain) == [exposed |-> FALSE, domain |-> domain]

\* createApp of the tests: the record inserted for the props exposed and domain
EnvEntity(exposed, domain) == [exposed |-> exposed, domain |-> domain]

\* the values of the file are sequences of pieces of text, so that a value has a
\* length; a domain is a value or Null
Text(s) == <<s>>
EnvDomains == {Null, Text("ex.com")}

\* the forms the tests submit: one with TEST_FIELD, one without
EnvForms == {FormHello, FormNoDomain}

\* a line of the file, and the map the file is parsed into by getEnvMap
Var(name, value) == [name |-> name, value |-> value]
EnvHas(map, name) == \E v \in map : v.name = name
EnvGet(map, name) == (CHOOSE v \in map : v.name = name).value
EnvSet(map, name, value) == {v \in map : v.name # name} \cup {Var(name, value)}

\* the app.env the tests start from, the one the test of the random field writes,
\* and no file at all
NoFile == [exists |-> FALSE, vars |-> {}]
MockFile == [exists |-> TRUE,
             vars |-> {Var("TEST", Text("test")), Var("APP_PORT", Text(AppPort)),
                       Var("TEST_FIELD", Text("test"))}]

\* the length of a generated value, and the values the generator may draw
RandomLength == 32
RandomValues == {[i \in 1..RandomLength |-> c] : c \in {"a", "b"}}
WrittenFile == [exists |-> TRUE, vars |-> {Var("RANDOM_FIELD", [i \in 1..RandomLength |-> "w"])}]

\* the required fields the form has no value for
MissingRequired(fields, form) ==
  {i \in DOMAIN fields : fields[i].required /\ ~Has(form, fields[i].env_variable)}

\* what generateEnvFile throws: the first required field the form leaves out is
\* named, before anything is written
envError(fields, form) ==
  LET missing == MissingRequired(fields, form) IN
  IF missing = {} THEN NoThrow
  ELSE LET first == CHOOSE i \in missing : \A j \in missing : i <= j
       IN Thrown(TRUE, FALSE, <<"Variable ", fields[first].env_variable, " is required">>)

\* the value of a field: a random field keeps the value the file has for it and
\* gets a generated one otherwise; another field has the value of the form
RECURSIVE envFields(_, _, _, _, _)
envFields(map, fields, form, old, generated) ==
  IF fields = <<>> THEN map
  ELSE LET field == Head(fields)
           name == field.env_variable
           next ==
             IF field.type = "random"
             THEN EnvSet(map, name, IF old.exists /\ EnvHas(old.vars, name)
                                    THEN EnvGet(old.vars, name) ELSE generated)
             ELSE IF Has(form, name) THEN EnvSet(map, name, Text(form[name]))
             ELSE map
       IN envFields(next, Tail(fields), form, old, generated)

\* the two computed variables: APP_EXPOSED and the domain for an exposed app with a
\* domain, localhost and the port otherwise
envExposure(map, entity) ==
  IF entity.exposed /\ entity.domain # Null
  THEN EnvSet(EnvSet(map, "APP_EXPOSED", Text("true")), "APP_DOMAIN", entity.domain)
  ELSE EnvSet(map, "APP_DOMAIN", <<"localhost:", AppPort>>)

\* the file generateEnvFile writes over the one that was there
envFile(fields, form, entity, old, generated) ==
  [exists |-> TRUE,
   vars |-> envExposure(envFields({Var("APP_PORT", Text(AppPort))}, fields, form, old,
                                  generated),
                        entity)]

\* an app of the tests, with or without a random field, exposed or not, with or
\* without a domain, and its environment file
InitEnv ==
  /\ \E randomField \in BOOLEAN, exposed \in BOOLEAN, domain \in EnvDomains,
        file \in {NoFile, MockFile, WrittenFile} :
       env = [pc |-> "ready", randomField |-> randomField, exposed |-> exposed,
              domain |-> domain, file |-> file, form |-> FormHello, result |-> NoThrow,
              generated |-> 0, drawn |-> <<>>]
  /\ appTable = <<>>
  /\ demoMode = FALSE
  /\ queue = EmptyBag
  /\ results = EmptyBag
  /\ validated = EmptyBag
  /\ unawaited = EmptyBag
  /\ startAll = NoStartAll
  /\ exec = NoExec

\* how many generations a behaviour follows
MaxGenerations == 3

\* generateEnvFile(app) for a form; value is what the generator draws if it has to,
\* and drawn remembers it
GenerateEnv(form, value) ==
  /\ env.pc = "ready"
  /\ env.generated < MaxGenerations
  /\ LET fields == FormFields(env.randomField)
         err == envError(fields, form)
     IN env' = [env EXCEPT !.form = form,
                           !.result = err,
                           !.generated = @ + 1,
                           !.drawn = value,
                           !.file = IF err.thrown THEN @
                                    ELSE envFile(fields, form,
                                                 EnvEntity(env.exposed, env.domain), @,
                                                 value)]
  /\ UNCHANGED <<appTable, queue, results, validated, unawaited, demoMode, startAll, exec>>

\* the file is deleted, as uninstall and reset delete the data folder
RemoveEnvFile ==
  /\ env.pc = "ready"
  /\ env.file.exists
  /\ env' = [env EXCEPT !.file = NoFile]
  /\ UNCHANGED <<appTable, queue, results, validated, unawaited, demoMode, startAll, exec>>

\* the exposure of the record is changed, as updateAppConfig changes it: an exposed
\* app is given a domain
SetExposure(exposed, domain) ==
  /\ env.pc = "ready"
  /\ ~(exposed /\ domain = Null)
  /\ <<exposed, domain>> # <<env.exposed, env.domain>>
  /\ env' = [env EXCEPT !.exposed = exposed, !.domain = domain]
  /\ UNCHANGED <<appTable, queue, results, validated, unawaited, demoMode, startAll, exec>>

NextEnv ==
  \/ \E form \in EnvForms, value \in RandomValues : GenerateEnv(form, value)
  \/ RemoveEnvFile
  \/ \E exposed \in BOOLEAN, domain \in EnvDomains : SetExposure(exposed, domain)

SpecEnv == InitEnv /\ [][NextEnv]_vars

----------------------------------------------------------------------------
(* Properties of the lifecycle commands, under Spec                        *)

\* the status a command is documented to leave behind when its operation fails;
\* a failed install leaves no record, which reads as missing
Fallback(command) ==
  CASE command = "stop" -> "running"
    [] command = "install" -> "missing"
    [] OTHER -> "stopped"

\* the in-progress status of each command
InProgress(command) ==
  CASE command = "install" -> "installing"
    [] command = "start" -> "starting"
    [] command = "stop" -> "stopping"
    [] command = "reset" -> "resetting"
    [] command = "uninstall" -> "uninstalling"
    [] command = "update" -> "updating"

\* C1: when the operation of a lifecycle command reported failure, the status
\* of the app's record once the completion callback has run is the fallback of
\* the command (stop: running; start, reset, uninstall, update: stopped;
\* install: no record), for every command invoked on an app that had a record.
C1_FallbackAfterFailure ==
  [][\A r \in BagToSet(results) :
       (~r.success /\ (Then(r) \/ ThenUpdate(r))
          /\ (r.command = "install" \/ r.before # "missing"))
         => StatusOf(appTable', r.appid) = Fallback(r.command)]_vars

\* C2: no lifecycle event is dispatched while the record still shows the status
\* it had before the command: every event waiting for the worker was dispatched
\* when the record showed the in-progress status of its command.
C2_InProgressBeforeDispatch ==
  \A e \in BagToSet(queue) :
    e.command \in {"install", "start", "stop", "reset", "uninstall", "update"}
      => e.seen = InProgress(e.command)

\* C3 (as stated): after a failed start or stop the record's status is the one
\* it had when the command was invoked, here for a command invoked on a running
\* or a stopped app.
C3_RevertsToStatusBefore ==
  [][\A r \in BagToSet(results) :
       (r.command \in {"start", "stop"} /\ ~r.success /\ Then(r)
          /\ r.before \in {"running", "stopped"})
         => StatusOf(appTable', r.appid) = r.before]_vars

\* C3 (amended): the callback of a failed start writes stopped, and that of a
\* failed stop writes running, to the app's record if it still exists, whatever
\* the status was when the command was invoked; it creates and deletes no record.
C3_FixedStatusAfterFailure ==
  [][\A r \in BagToSet(results) :
       (r.command \in {"start", "stop"} /\ ~r.success /\ Then(r))
         => /\ HasApp(appTable', r.appid) = HasApp(appTable, r.appid)
            /\ Len(appTable') = Len(appTable)
            /\ HasApp(appTable, r.appid)
                 => StatusOf(appTable', r.appid)
                      = (IF r.command = "start" THEN "stopped" ELSE "running")]_vars

\* a start invoked on a running app has failed and its callback is about to run
C3_FailedStartOfRunningApp ==
  \E r \in BagToSet(results) :
    /\ r.command = "start"
    /\ ~r.success
    /\ r.before = "running"
    /\ HasApp(appTable, r.appid)

\* C4: startApp, stopApp, resetApp, uninstallApp and updateApp for an id without
\* a record throw app-not-found, and write and dispatch nothing.
C4_NotFoundWithoutRecord ==
  [][\A id \in LifecycleIds :
       ~HasApp(appTable, id) =>
         /\ (startApp(id) \/ StartAppCommand(id))
              => startAppError(appTable, id) = "app-not-found"
         /\ stopApp(id) => stopAppError(appTable, id) = "app-not-found"
         /\ uninstallApp(id) => uninstallAppError(appTable, id) = "app-not-found"
         /\ updateApp(id) => updateAppError(appTable, id) = "app-not-found"
         /\ ResetAppCommand(id) => ResetAppCommandError(appTable, id) = "app-not-found"
         /\ resetApp(id) => /\ resetAppError(appTable, id) = "app-not-found"
                            /\ UNCHANGED <<appTable, queue, unawaited>>]_vars

----------------------------------------------------------------------------
(* Properties of the exposure settings, under SpecConfig                   *)

\* the exposed flag and the domain of the rows of an app
Exposure(table, id) ==
  [i \in DOMAIN Rows(table, id) |-> <<Rows(table, id)[i].exposed, Rows(table, id)[i].domain>>]

\* another app than B is recorded as exposed with domain D
Taken(table, B, D) ==
  \E i \in DOMAIN table : table[i].exposed /\ table[i].domain = D /\ table[i].id # B

\* installApp's demo limit is reached
AtDemoLimit == demoMode /\ Len(appTable) >= DemoLimit

\* C5: no two records of distinct apps are exposed with the same non-null domain.
C5_DomainExclusive ==
  \A i, j \in DOMAIN appTable :
    (/\ appTable[i].id # appTable[j].id
     /\ appTable[i].exposed
     /\ appTable[j].exposed
     /\ appTable[i].domain # Null)
      => appTable[i].domain # appTable[j].domain

C7_InstallRefusesBadDomain ==
  \A id \in AppIds :
    /\ installAppError(appTable, demoMode, id, FormNoDomain) = "domain-required-if-expose-app"
    /\ installAppError(appTable, demoMode, id, FormBadDomain) = "domain-not-valid"

\* C7 (amended): every exposed record has a non-empty domain that is an FQDN.
\* updateAppConfig refuses a form that asks for exposure without a domain with
\* domain-required, and a form whose domain is no FQDN with domain-not-valid,
\* before any other check. install does so for an app without a record unless
\* the demo limit is reached, which it reports first; for an app with a record
\* it refuses nothing and starts the app.
C7_ExposedHasValidDomain ==
  /\ \A i \in DOMAIN appTable :
       appTable[i].exposed =>
         /\ appTable[i].domain # Null
         /\ appTable[i].domain # EmptyString
         /\ isFQDN(appTable[i].domain)
  /\ \A id \in AppIds :
       /\ UpdateAppConfigCommandError(appTable, id, FormNoDomain)
            = "domain-required-if-expose-app"
       /\ updateAppConfigError(appTable, id, FormNoDomain) = "domain-required-if-expose-app"
       /\ UpdateAppConfigCommandError(appTable, id, FormBadDomain) = "domain-not-valid"
       /\ updateAppConfigError(appTable, id, FormBadDomain) = "domain-not-valid"
       /\ installAppError(appTable, demoMode, id, FormNoDomain) =
            (IF HasApp(appTable, id) THEN "none"
             ELSE IF AtDemoLimit THEN "demo-mode-limit"
             ELSE "domain-required-if-expose-app")
       /\ installAppError(appTable, demoMode, id, FormBadDomain) =
            (IF HasApp(appTable, id) THEN "none"
             ELSE IF AtDemoLimit THEN "demo-mode-limit"
             ELSE "domain-not-valid")

\* an app is exposed and running, and an install request for it with a form
\* that lacks the domain is not refused
C7_ExposedAppInstalled ==
  \E i \in DOMAIN appTable :
    /\ appTable[i].exposed
    /\ appTable[i].status = "running"
    /\ installAppError(appTable, demoMode, appTable[i].id, FormNoDomain) = "none"

C9_RefusedInstallChangesNothing ==
  [][UNCHANGED vars \/
     \A id \in AppIds, form \in Forms :
       (installAppError(appTable, demoMode, id, form) # "none" /\ installApp(id, form))
         => UNCHANGED <<appTable, queue, results, validated, unawaited>>]_vars

\* an install filled the table up to the demo limit, which now refuses the
\* install of an app without a record
C9_InstallRefused ==
  /\ Len(appTable) > Len(FillerTable)
  /\ \E id \in AppIds :
       /\ ~HasApp(appTable, id)
       /\ installAppError(appTable, demoMode, id, FormHello) = "demo-mode-limit"

\* C10: when generate_env reported failure, updateAppConfig throws
\* app-failed-to-update and its resumption leaves every record as it was; the
\* worker's generate_env writes no record either.
C10_FailedGenerateEnvKeepsRecord ==
  [][UNCHANGED vars \/
     /\ \A r \in BagToSet(results) :
          (r.command = "generate_env" /\ ~r.success /\ ThenGenerateEnv(r))
            => /\ appTable' = appTable
               /\ GenerateEnvError(r) = "app-failed-to-update"
     /\ \A e \in BagToSet(queue) :
          (e.command = "generate_env" /\ \E o \in Outcomes : WorkerRun(e, o))
            => appTable' = appTable]_vars

\* generate_env failed for a request that would change the record of the app
C10_GenerateEnvFailed ==
  \E r \in BagToSet(results) :
    /\ r.command = "generate_env"
    /\ ~r.success
    /\ HasApp(appTable, r.appid)
    /\ getApp(appTable, r.appid).config # r.form

\* C11: once the callback of a successful update has run, the record is not in
\* updating: an app that was stopped when updateApp was invoked is stopped, and
\* an app that was running is starting, its follow-up start dispatched.
C11_SuccessfulUpdateRestoresStatus ==
  [][UNCHANGED vars \/
     \A r \in BagToSet(results) :
       (r.command = "update" /\ r.success /\ ThenUpdate(r))
         => /\ StatusOf(appTable', r.appid) # "updating"
            /\ r.before = "stopped" => StatusOf(appTable', r.appid) = "stopped"
            /\ r.before = "running"
                 => /\ StatusOf(appTable', r.appid) = "starting"
                    /\ \E e \in BagToSet(queue') :
                         e.command = "start" /\ e.appid = r.appid]_vars

\* C12: updateApp for an app whose definition asks for a newer host than the
\* current one writes no status and dispatches no event.
C12_MinVersionRefusedBeforeMutation ==
  [][UNCHANGED vars \/
     \A id \in UpdateIds :
       (getAppInfo(id).min_tipi_version > TipiVersion /\ updateApp(id))
         => UNCHANGED <<appTable, queue>>]_vars

\* the commands on app id whose event is waiting for the worker or whose
\* completion callback has not run yet
ActiveOn(id) ==
  LET On(B) == [x \in {y \in BagToSet(B) : y.appid = id} |-> B[x]]
  IN BagCardinality(On(queue)) + BagCardinality(On(results))

\* C13: a start invoked while the record shows the in-progress status of another
\* command is rejected without writing a status or dispatching an event, so that
\* a start never makes a second command active on an app.
C13_StartRejectedWhileInProgress ==
  [][UNCHANGED vars \/
     \A id \in LifecycleIds :
       (startApp(id) \/ StartAppCommand(id))
         => /\ StatusOf(appTable, id) \in {"installing", "uninstalling", "stopping",
                                           "resetting", "updating", "starting"}
                 => UNCHANGED <<appTable, queue>>
            /\ ActiveOn(id)' <= 1]_vars

\* C14: while the uninstall of an app that was running is waiting for the worker
\* or being run by it, the record's status is uninstalling.
C14_UninstallingUntilCompletion ==
  \A e \in BagToSet(queue) :
    (e.command = "uninstall" /\ e.before = "running")
      => StatusOf(appTable, e.appid) = "uninstalling"

----------------------------------------------------------------------------
(* Properties of startAllApps, under SpecStartAll                          *)

\* startAllApps has returned and every start it dispatched has completed, its
\* callback included
StartAllFinished ==
  /\ startAll.pc = "done"
  /\ queue = EmptyBag
  /\ results = EmptyBag

\* C15: once startAllApps has normalised the table, every app it found in a status
\* other than running, stopped or missing is stopped until a start is attempted
\* for it, and once startAllApps and the starts it triggered have finished every
\* record is running, stopped or missing.
C15_SettledAfterStartAll ==
  /\ startAll.pc \in {"starting", "done"} =>
       \A i \in DOMAIN appTable :
         (startAll.was[appTable[i].id] \notin {"running", "stopped", "missing"}
            /\ appTable[i].id \notin startAll.attempted)
           => appTable[i].status = "stopped"
  /\ StartAllFinished =>
       \A i \in DOMAIN appTable : appTable[i].status \in {"running", "stopped", "missing"}

\* startAllApps has finished on a table in which it found an app installing,
\* which now is stopped
C15_InProgressAppSettled ==
  /\ StartAllFinished
  /\ \E i \in DOMAIN appTable :
       /\ startAll.was[appTable[i].id] = "installing"
       /\ appTable[i].status = "stopped"

\* C16: a start attempted by startAllApps leaves its app running when it succeeded
\* and stopped when it failed, touches no other app and leaves the rest of the
\* selected apps to be attempted; startAllApps returns only once a start was
\* attempted for every selected app.
C16_FailureDoesNotAbortBatch ==
  [][UNCHANGED vars \/
     /\ \A outcome \in Outcomes :
          WorkerStartNext(outcome) =>
            LET id == Head(startAll.apps).id IN
            /\ StatusOf(appTable', id) = (IF outcome = "ok" THEN "running" ELSE "stopped")
            /\ \A other \in Ids(appTable) \ {id} :
                 StatusOf(appTable', other) = StatusOf(appTable, other)
            /\ startAll'.selected \ startAll'.attempted = Ids(startAll'.apps)
     /\ \A r \in BagToSet(results) :
          (r.via = "startAll" /\ Then(r)) =>
            /\ StatusOf(appTable', r.appid) = (IF r.success THEN "running" ELSE "stopped")
            /\ \A other \in Ids(appTable) \ {r.appid} :
                 StatusOf(appTable', other) = StatusOf(appTable, other)
     /\ startAll'.pc = "done" => startAll'.attempted = startAll'.selected]_vars

\* a start of the batch has failed, its app is stopped, and a start has since been
\* attempted for another selected app
C16_BatchWentOnAfterFailure ==
  /\ startAll.pc \in {"starting", "done"}
  /\ \E id \in startAll.attempted, next \in startAll.attempted :
       /\ id # next
       /\ StatusOf(appTable, id) = "stopped"
       /\ startAll.was[id] = "running"
       /\ queue = EmptyBag /\ results = EmptyBag
       /\ StatusOf(appTable, next) = "running"
       /\ IdLess(id, next)

\* the apps startAllApps is to attempt: those found running, or every app when
\* forceStartAll is set
StartAllExpected ==
  IF startAll.forceStartAll THEN DOMAIN startAll.was
  ELSE {id \in DOMAIN startAll.was : startAll.was[id] = "running"}

\* C17: startAllApps attempts a start only for the apps it found running, or for
\* any app when forced, and has attempted all of those when it returns; an app a
\* start is not attempted for and that was found stopped stays stopped, and one
\* found in an in-progress status is stopped once the table is normalised.
C17_AttemptsExactlyTheSelection ==
  /\ startAll.pc # "idle" => startAll.attempted \subseteq StartAllExpected
  /\ startAll.pc = "done" => startAll.attempted = StartAllExpected
  /\ startAll.pc # "idle" =>
       \A id \in DOMAIN startAll.was \ StartAllExpected :
         /\ startAll.was[id] = "stopped" => StatusOf(appTable, id) = "stopped"
         /\ (startAll.was[id] = "installing" /\ startAll.pc \in {"starting", "done"})
              => StatusOf(appTable, id) = "stopped"

\* an unforced startAllApps has returned on a table in which it found one app
\* running, one stopped and one installing
C17_UnforcedRunOnMixedTable ==
  /\ startAll.pc = "done"
  /\ ~startAll.forceStartAll
  /\ \E r \in DOMAIN startAll.was, s \in DOMAIN startAll.was, i \in DOMAIN startAll.was :
       /\ startAll.was[r] = "running" /\ r \in startAll.attempted
       /\ startAll.was[s] = "stopped" /\ s \notin startAll.attempted
       /\ startAll.was[i] = "installing" /\ i \notin startAll.attempted

----------------------------------------------------------------------------
(* Properties of the executor commands, under SpecExec                     *)

ExecReturned == exec.pc = "returned"

\* C18 (as stated): a command in which a step on the filesystem or the container
\* runtime failed returns success false with the message of that failure.
C18_EveryFailureIsReturned ==
  ExecReturned =>
    /\ \A t \in exec.tolerated : ~exec.ret.success
    /\ (exec.failed # <<>> /\ exec.failed[1].kind \in {"fs", "compose"})
         => exec.ret = [success |-> FALSE, message |-> exec.failed[1].err.message]

\* the steps whose failure a command logs and survives
ToleratedSteps(command) ==
  {"ensureAppDir: write docker-compose.yml", "ensureAppDir: chmod"}
    \cup (IF command = "uninstall" THEN {"compose down", "rm appDir", "rm appDataDir"} ELSE {})
    \cup (IF command = "reset" THEN {"compose down", "rm appDataDir"} ELSE {})
    \cup (IF command = "update" THEN {"compose up", "compose down"} ELSE {})

\* C18 (amended): a command whose step failed in a way the command does not
\* tolerate has published its error event last and returns success false with the
\* message of the Error thrown, or that of the value thrown after "An error
\* occurred: "; the command went on only after the failure of a tolerated step,
\* for the compose down of uninstall and reset only when the error is a conflict;
\* a command returns success false for no other reason, but for an install of an
\* app that is not in the repo.
C18_UntoleratedFailureIsReturned ==
  ExecReturned =>
    /\ exec.failed # <<>> =>
         LET err == exec.failed[1].err IN
         /\ ~exec.ret.success
         /\ err.isError => exec.ret.message = err.message
         /\ ~err.isError => exec.ret.message = <<"An error occurred: ">> \o err.message
         /\ exec.events[Len(exec.events)] = ErrorEvent(exec.command)
    /\ \A t \in exec.tolerated :
         /\ t.step \in ToleratedSteps(exec.command)
         /\ (t.step = "compose down" /\ exec.command \in {"uninstall", "reset"})
              => t.err.conflict
    /\ (exec.failed = <<>> /\ ~exec.ret.success)
         => (exec.command = "install" /\ ~exec.cond)

\* an uninstall has returned after its compose down failed
C18_ComposeDownFailedInUninstall ==
  /\ ExecReturned
  /\ exec.command = "uninstall"
  /\ \/ exec.failed # <<>> /\ exec.failed[1].step = "compose down"
     \/ \E t \in exec.tolerated : t.step = "compose down"

\* the success event of each command
SuccessEvent(command) ==
  CASE command = "install" -> "install_success"
    [] command = "start" -> "start_success"
    [] command = "stop" -> "stop_success"
    [] command = "restart" -> "restart_success"
    [] command = "uninstall" -> "uninstall_success"
    [] command = "reset" -> "reset_success"
    [] command = "update" -> "update_success"
    [] command = "backup" -> "backup_success"
    [] command = "restore" -> "restore_success"
    [] command = "generate_env" -> "generate_env_success"

\* the completion events the command has published
ExecCompletions ==
  {i \in DOMAIN exec.events :
     exec.events[i] \in {SuccessEvent(exec.command), ErrorEvent(exec.command)}}

\* C19: a command that has published its start event and has returned has
\* published exactly one completion event, its success or its error event.
C19_OneCompletionAfterStart ==
  (ExecReturned /\ \E i \in DOMAIN exec.events : exec.events[i] = "status_change")
    => Cardinality(ExecCompletions) = 1

\* C20: an install of an app that is not in the repo returns success false with
\* the message App <id> not found in repo <repoId>, unless reading the repo
\* failed, and has called nothing that changes the filesystem or the containers.
C20_InstallOutsideRepoTouchesNothing ==
  (exec.pc # "idle" /\ exec.command = "install" /\ ~exec.cond) =>
    /\ exec.calls = {}
    /\ (ExecReturned /\ exec.failed = <<>>) =>
         exec.ret = [success |-> FALSE,
                     message |-> <<"App ", ExecAppId, " not found in repo ", ExecRepoId>>]

\* an install of an app that is not in the repo has returned
C20_InstallOutsideRepoReturned ==
  /\ ExecReturned
  /\ exec.command = "install"
  /\ ~exec.cond
  /\ exec.failed = <<>>

----------------------------------------------------------------------------
(* Properties of the folders of the app, under SpecExec                    *)

ExecIs(command) == exec.pc # "idle" /\ exec.command = command

\* C21: installApp removes every file of an installed folder that was there before
\* it copies the folder from the repo, and deletes no file of the data folder of
\* the app: once installApp has removed the installed folder, every file in it
\* comes from the repo or was generated, and at every step of installApp, whether
\* it succeeds or fails, every file that was under app-data/<id> is still there
C21_InstallKeepsAppData ==
  ExecIs("install") =>
    /\ Paths(exec.fs0.appData) \subseteq Paths(exec.fs.appData)
    /\ "mkdir appDir" \in exec.calls =>
         \A f \in exec.fs.appDir :
           f \in exec.fs.repo \/ f = File("docker-compose.yml", "generated")

\* an install over an installed app has succeeded: the stale file is gone from the
\* installed folder, the files of the data folder are there
C21_ReinstalledOverOldFolders ==
  /\ ExecIs("install")
  /\ ExecReturned /\ exec.ret.success
  /\ pathExists(exec.fs0.appDir, "test.txt") /\ ~pathExists(exec.fs.appDir, "test.txt")
  /\ pathExists(exec.fs0.appData, "test.txt") /\ pathExists(exec.fs.appData, "test.txt")

EnsureSteps == {ensureAppDir[i].name : i \in DOMAIN ensureAppDir}

\* C23: ensureAppDir leaves the installed folder of an installed app (one that has
\* its docker-compose.yml) untouched, so that what the user has edited is kept and
\* a second call changes nothing: no step of ensureAppDir changes an installed
\* folder that had its docker-compose.yml when ensureAppDir was called; when
\* docker-compose.yml is absent the folder is deleted and copied again from the repo
C23_EnsureLeavesInstalledFolder ==
  [][UNCHANGED vars \/
     (ExecRunning /\ ExecStepNow.name \in EnsureSteps) =>
       IF pathExists(exec.fs.appDir, "docker-compose.yml")
       THEN "ensureAppDir: rm, cp" \notin exec.calls => exec'.fs.appDir = exec.fs.appDir
       ELSE (ExecStepNow.name = "ensureAppDir: rm, cp" /\ exec'.pc = "running") =>
              exec'.fs.appDir = exec.fs.repo]_vars

\* what was thrown and caught inside the command without ending it
ToleratedAt(name) == {t \in exec.tolerated : t.step = name}
IsConflict(err) == err.isError /\ err.conflict
OnlyToleratedAt(names) == \A t \in exec.tolerated : t.step \in names

\* C24: a compose down of uninstallApp that fails with an Error whose message
\* contains conflict does not make the uninstall fail: no uninstall returns that
\* error, and an uninstall in which nothing but that compose down has thrown has
\* deleted the installed folder and the data folder, has deleted the record, has
\* logged the warning and returns success = true
C24_ConflictDoesNotStopUninstall ==
  ExecIs("uninstall") =>
    /\ \A i \in DOMAIN exec.failed :
         exec.failed[i].step = "compose down" => ~IsConflict(exec.failed[i].err)
    /\ (/\ ExecReturned
        /\ \E t \in ToleratedAt("compose down") : IsConflict(t.err)
        /\ OnlyToleratedAt({"compose down"})
        /\ exec.failed = <<>>) =>
         /\ exec.ret.success
         /\ exec.fs.appDir = {} /\ exec.fs.appData = {}
         /\ ~HasApp(appTable, ExecAppId)

\* an uninstall of an installed app has returned after a conflict of compose down
C24_UninstalledDespiteConflict ==
  /\ ExecIs("uninstall")
  /\ ExecReturned /\ exec.ret.success
  /\ \E t \in ToleratedAt("compose down") : IsConflict(t.err)
  /\ exec.fs0.appDir # {} /\ exec.fs0.appData # {}
  /\ exec.fs.appDir = {} /\ exec.fs.appData = {}
  /\ appTable = <<>>

\* the step at which the command failed
FailedAt(name) == exec.failed # <<>> /\ exec.failed[1].step = name

\* what the callback of the dashboard's uninstallApp makes of the table when it is
\* given what the command returned
AfterUninstallCallback ==
  ThenUninstallWrite(appTable, [success |-> exec.ret.success, appid |-> ExecAppId])

\* C25: a compose down of uninstallApp that fails with an error that is not a
\* conflict is fatal: such an error is never passed over, and the uninstall that
\* returns it returns success = false, has removed neither the installed folder
\* nor the data folder, has not deleted the record, and the callback of the
\* dashboard leaves the record with status stopped
C25_OtherDownErrorIsFatal ==
  ExecIs("uninstall") =>
    /\ \A t \in ToleratedAt("compose down") : IsConflict(t.err)
    /\ (ExecReturned /\ FailedAt("compose down")) =>
         /\ ~exec.ret.success
         /\ {"rm appDir", "rm appDataDir"} \cap exec.calls = {}
         /\ exec.fs.appDir # {} /\ exec.fs.appData # {}
         /\ Paths(exec.fs0.appData) \subseteq Paths(exec.fs.appData)
         /\ HasApp(appTable, ExecAppId)
         /\ StatusOf(AfterUninstallCallback, ExecAppId) = "stopped"

\* an uninstall of an installed app has returned the error of compose down, which
\* is not a conflict
C25_UninstallFailedAtDown ==
  /\ ExecIs("uninstall")
  /\ ExecReturned /\ FailedAt("compose down")
  /\ ~IsConflict(exec.failed[1].err)
  /\ exec.fs0.appDir # {}
  /\ exec.fs.appDir = exec.fs0.appDir

RmSteps == {"rm appDir", "rm appDataDir"}

\* C26: in uninstallApp a failure to delete the installed folder or the data folder
\* is logged and does not stop the command: no uninstall returns the error of one
\* of the two rm, and an uninstall in which only they have thrown has deleted the
\* record and returns success = true
C26_RmFailureDoesNotStopUninstall ==
  ExecIs("uninstall") =>
    /\ \A name \in RmSteps : ~FailedAt(name)
    /\ (/\ ExecReturned
        /\ \E name \in RmSteps : ToleratedAt(name) # {}
        /\ OnlyToleratedAt(RmSteps)
        /\ exec.failed = <<>>) =>
         /\ exec.ret.success
         /\ ~HasApp(appTable, ExecAppId)

\* an uninstall has returned success although a rm has failed and has left files
\* of the data folder behind
C26_UninstalledWithFilesLeft ==
  /\ ExecIs("uninstall")
  /\ ExecReturned /\ exec.ret.success
  /\ ToleratedAt("rm appDataDir") # {}
  /\ exec.fs.appData # {}
  /\ appTable = <<>>

\* what the callback of ResetAppCommand makes of the table when it is given what
\* the command returned
AfterResetCallback ==
  ThenResetWrite(appTable, [success |-> exec.ret.success, appid |-> ExecAppId])

\* C27: in resetApp the seed data are copied only after the deletion of the data
\* folder has completed, a reset that fails leaves the record with status stopped,
\* and no reset ends with a data folder that holds files it had before the reset
\* together with seed data copied by the reset
C27_ResetSeedsOnlyAfterDeletion ==
  ExecIs("reset") =>
    /\ "copyDataDir" \in exec.calls => ToleratedAt("rm appDataDir") = {}
    /\ (ExecReturned /\ ~exec.ret.success) =>
         StatusOf(AfterResetCallback, ExecAppId) = "stopped"
    /\ ExecReturned =>
         ~ /\ exec.fs.appData \cap exec.fs0.appData # {}
           /\ (DataDir(exec.fs.appData) \cap DataDir(exec.fs.repo)) \ exec.fs0.appData # {}

\* the three folders of the app as they are and as they were when the command was
\* called
FoldersNow == [appDir |-> exec.fs.appDir, appData |-> exec.fs.appData,
               userConfig |-> exec.fs.userConfig]
FoldersUnchanged == FoldersNow = exec.fs0

\* C28: restoreApp removes the installed folder, the data folder and the
\* user-config folder of the app only after it has found the archive and has
\* extracted it into the scratch folder: as long as the three folders are not as
\* they were, the archive exists and its extraction has succeeded, and a restore
\* whose archive is missing or whose extraction fails returns success = false with
\* the three folders unchanged
C28_RestoreRemovesAfterExtraction ==
  ExecIs("restore") =>
    /\ (~FoldersUnchanged \/ {"rm appDataDir", "rm appDir", "rm user-config"} \cap exec.calls # {}) =>
         /\ exec.cond
         /\ "extractTarGz" \in exec.calls
         /\ ~FailedAt("extractTarGz")
    /\ (ExecReturned /\ (~exec.cond \/ FailedAt("extractTarGz"))) =>
         /\ ~exec.ret.success
         /\ FoldersUnchanged

\* a restore over an installed app has returned the error of the extraction
C28_RestoreFailedAtExtraction ==
  /\ ExecIs("restore")
  /\ ExecReturned /\ FailedAt("extractTarGz")
  /\ ~exec.ret.success
  /\ exec.fs0.appDir # {} /\ exec.fs0.appData # {} /\ exec.fs0.userConfig # {}
  /\ exec.fs.backups # {}

\* the command has returned success
ExecSucceeded == ExecReturned /\ exec.ret.success

\* C29: after a restoreApp that succeeds, the version of the record is the
\* tipi_version of the config.json of the restored installed folder, which is the
\* one of the archive, whatever the version of the record was, and the status the
\* success event reports is stopped
C29_RestoreSetsArchivedVersion ==
  (ExecIs("restore") /\ ExecSucceeded) =>
    /\ ConfigJson(exec.fs.appDir) = ConfigJson(TheArchive(exec.fs).app)
    /\ getApp(appTable, ExecAppId).version = tipiVersionOf(ConfigJson(exec.fs.appDir).content)
    /\ exec.events[Len(exec.events)] = SuccessEvent("restore")
    /\ SuccessStatus(exec.command) = "stopped"

\* a restore has succeeded over an installed folder of version 1, from an archive
\* of version 2, for a record that had version 0 or 3: the record has version 2
C29_RestoredAnotherVersion ==
  /\ ExecIs("restore") /\ ExecSucceeded
  /\ File("config.json", "tipi_version 1") \in exec.fs0.appDir
  /\ File("config.json", "tipi_version 2") \in TheArchive(exec.fs).app
  /\ getApp(appTable, ExecAppId).version = 2

\* the containers of the app are up
ContainersUp == exec.fs.containers = "up"

\* C30: after backupApp has completed, with success, the app is in the status it
\* had before the backup: the containers of an app that was running are up again
\* and those of an app that was stopped are down, and the status the success
\* event reports is the status the app had
C30_BackupRestoresStatus ==
  (ExecIs("backup") /\ ExecSucceeded) =>
    /\ ContainersUp <=> exec.was = "running"
    /\ SuccessStatus("backup") = exec.was

----------------------------------------------------------------------------
(* Properties of the environment file, under SpecEnv                        *)

\* a generation has just been run
Generated == env.pc = "ready" /\ env'.generated = env.generated + 1

\* C31: a generation for a form without the required field TEST_FIELD fails with
\* 'Variable TEST_FIELD is required' and leaves the environment file as it was,
\* absent or with every line it had.
C31_MissingRequiredFieldWritesNothing ==
  [][(Generated /\ ~Has(env'.form, "TEST_FIELD"))
       => /\ env'.result = Thrown(TRUE, FALSE, <<"Variable ", "TEST_FIELD", " is required">>)
          /\ env'.file = env.file]_vars

\* a generation failed for the missing field while the app had its file
C31_FailedWithFileInPlace ==
  /\ env.pc = "ready"
  /\ env.result.thrown
  /\ ~Has(env.form, "TEST_FIELD")
  /\ env.file = MockFile

\* the file defines the variable
Defines(file, name) == file.exists /\ EnvHas(file.vars, name)

\* C32: a successful generation for an app with the random field RANDOM_FIELD keeps
\* the value the file already has for it, whatever the generator would draw, and
\* writes a generated value of length 32 only when the file does not define it; so
\* consecutive generations without deleting the file yield the same value.
C32_RandomFieldIsKept ==
  [][(Generated /\ env.randomField /\ ~env'.result.thrown)
       => /\ Defines(env'.file, "RANDOM_FIELD")
          /\ IF Defines(env.file, "RANDOM_FIELD")
             THEN EnvGet(env'.file.vars, "RANDOM_FIELD") = EnvGet(env.file.vars, "RANDOM_FIELD")
             ELSE /\ EnvGet(env'.file.vars, "RANDOM_FIELD") = env'.drawn
                  /\ Len(env'.drawn) = RandomLength]_vars

\* a later generation drew another value and the file still has the generated one
C32_KeptAGeneratedValue ==
  /\ env.pc = "ready"
  /\ env.randomField
  /\ ~env.result.thrown
  /\ env.generated >= 2
  /\ Defines(env.file, "RANDOM_FIELD")
  /\ EnvGet(env.file.vars, "RANDOM_FIELD") \in RandomValues
  /\ EnvGet(env.file.vars, "RANDOM_FIELD") # env.drawn

\* C33: a successful generation writes a file with APP_DOMAIN; for an exposed app
\* with a domain the file has APP_EXPOSED=true and APP_DOMAIN=<domain>; in every
\* other case it has no APP_EXPOSED line and APP_DOMAIN=localhost:<port>.
C33_ExposureInEnvFile ==
  [][(Generated /\ ~env'.result.thrown)
       => /\ Defines(env'.file, "APP_DOMAIN")
          /\ IF env.exposed /\ env.domain # Null
             THEN /\ Defines(env'.file, "APP_EXPOSED")
                  /\ EnvGet(env'.file.vars, "APP_EXPOSED") = Text("true")
                  /\ EnvGet(env'.file.vars, "APP_DOMAIN") = env.domain
             ELSE /\ ~Defines(env'.file, "APP_EXPOSED")
                  /\ EnvGet(env'.file.vars, "APP_DOMAIN") = <<"localhost:", AppPort>>]_vars

\* the file of an exposed app with a domain has been generated
C33_GeneratedForExposedApp ==
  /\ env.pc = "ready"
  /\ env.generated >= 1
  /\ ~env.result.thrown
  /\ env.exposed
  /\ Defines(env.file, "APP_EXPOSED")
  /\ EnvGet(env.file.vars, "APP_DOMAIN") = env.domain

----------------------------------------------------------------------------
(* Properties of the readers and of the commands, under Spec                *)

\* the table with a record of status missing stored for the app
WithMissingRecord(table, id) == createApp(table, NewRow(id, "missing", EmptyForm, TipiVersion))

\* C34: for an app of the catalog that has no record, getApp returns an app with
\* this id, status missing, an empty config and not exposed: the status, config and
\* exposure it would return if a record of status missing were stored for the app.
C34_AbsentReadsAsMissing ==
  \A id \in AppIds :
    (getAppInfo(id).available /\ ~HasApp(appTable, id))
      => LET served == getAppOrDefault(appTable, id)
             stored == getAppOrDefault(WithMissingRecord(appTable, id), id)
         IN /\ served.id = id
            /\ served.status = "missing"
            /\ served.config = EmptyForm
            /\ served.status = stored.status
            /\ served.config = stored.config
            /\ served.exposed = stored.exposed
            /\ StatusOf(appTable, id) = StatusOf(WithMissingRecord(appTable, id), id)

\* an app of the catalog has no record while a command on it has yet to call back
C34_ReadWithoutRecord ==
  \E id \in AppIds :
    /\ getAppInfo(id).available
    /\ ~HasApp(appTable, id)
    /\ \E r \in BagToSet(results) : r.appid = id

\* the in-progress statuses
InProgressStatuses ==
  {"installing", "starting", "stopping", "resetting", "uninstalling", "updating"}

\* no event is waiting for the worker, no callback has yet to run, no write is on
\* its way and no install is between its checks and createApp
NothingInFlight ==
  /\ queue = EmptyBag
  /\ results = EmptyBag
  /\ unawaited = EmptyBag
  /\ validated = EmptyBag

\* C35: no record stays in an in-progress status forever: once every event has
\* completed and every callback has run, with nothing left in flight, no record is
\* in an in-progress status. (In such a state no step of Fairness is enabled, so
\* the behaviour in which no further command is invoked is a fair one, and in it
\* the record keeps its status for ever.)
C35_NoRecordLeftInProgress ==
  NothingInFlight
    => \A i \in DOMAIN appTable : appTable[i].status \notin InProgressStatuses

\* C36: StartAppCommand.execute returns with the record in starting and the start
\* event handed to the worker, not yet run: no result of it exists and nothing of
\* the step depends on what the worker will answer; running (on success) or
\* stopped (on failure) is written later, by the callback of that event.
C36_StartReturnsBeforeWorker ==
  [][UNCHANGED vars \/
     /\ \A id \in LifecycleIds :
          (StartAppCommandError(appTable, id) = "none" /\ StartAppCommand(id))
            => /\ StatusOf(appTable', id) = "starting"
               /\ queue' = StartDispatch(appTable, queue, id, "command")
               /\ results' = results
     /\ \A r \in BagToSet(results) :
          (r.command = "start" /\ r.via = "command" /\ Then(r) /\ HasApp(appTable, r.appid))
            => StatusOf(appTable', r.appid) = (IF r.success THEN "running" ELSE "stopped")]_vars

\* the command has returned: the record is starting and its event waits for the
\* worker
C36_StartReturnedEventWaiting ==
  \E e \in BagToSet(queue) :
    /\ e.command = "start"
    /\ e.via = "command"
    /\ StatusOf(appTable, e.appid) = "starting"

----------------------------------------------------------------------------
(* Properties of resetApp and updateApp, under SpecExec                     *)

\* the table when ResetAppCommand has marked the record and the executor has not
\* written it
MarkedResetting == SetStatus(appTable, ExecAppId, "resetting")

BackupFailed == \E i \in DOMAIN exec.events : exec.events[i] = ErrorEvent("backup")

\* C38: an updateApp with performBackup whose backup has failed does not go on to
\* delete the installed folder nor to copy the folder of the repo over it.
C38_NoUpdateAfterFailedBackup ==
  (ExecIs("update") /\ BackupFailed) =>
    /\ "rm appDir" \notin exec.calls
    /\ "cp repo appDir" \notin exec.calls

----------------------------------------------------------------------------
(* Properties of the records of other apps, under SpecFrame                 *)

\* a step of a command invoked for the app, of the worker running an event of the
\* app, or of a callback of such an event
ActsOn(id) ==
  \/ installApp(id, FormHello) \/ startApp(id) \/ StartAppCommand(id) \/ stopApp(id)
  \/ uninstallApp(id) \/ resetApp(id) \/ ResetAppCommand(id) \/ updateApp(id)
  \/ updateAppConfig(id, FormHello) \/ UpdateAppConfigCommand(id, FormHello)
  \/ \E v \in BagToSet(validated) : v.id = id /\ installCreate(v)
  \/ \E w \in BagToSet(unawaited) : w.appid = id /\ WriteLands(w)
  \/ \E e \in BagToSet(queue), outcome \in Outcomes : e.appid = id /\ WorkerRun(e, outcome)
  \/ \E r \in BagToSet(results) :
       r.appid = id /\ (Then(r) \/ ThenUpdate(r) \/ ThenGenerateEnv(r))

\* C39: every step of a lifecycle command invoked for an app, of the worker on its
\* event and of its completion callback leaves the records of every other app as
\* they are: none is created, modified or deleted.
C39_OtherRecordsUntouched ==
  [][UNCHANGED vars \/
     /\ \E id \in FrameIds : ActsOn(id)
     /\ \A id \in FrameIds :
          ActsOn(id) => \A other \in AppIds \ {id} :
                          Rows(appTable', other) = Rows(appTable, other)]_vars

\* the record of a has been deleted by an uninstall while b has its record, in an
\* in-progress status
C39_UninstalledNextToAnotherApp ==
  /\ ~HasApp(appTable, "a")
  /\ HasApp(appTable, "b")
  /\ getApp(appTable, "b").status = "updating"
  /\ \E r \in BagToSet(results) : r.appid = "a" /\ r.command = "uninstall"

----------------------------------------------------------------------------
(* Properties of the table as a whole, under Spec                           *)

\* C40: in every reachable state the table holds at most one record per app id,
\* also when two installs of the same app are between their checks and createApp
\* at the same time.
C40_OneRecordPerId ==
  \A id \in AppIds : Len(Rows(appTable, id)) <= 1

====
